---- MODULE Spec2Model ----
(***************************************************************************)
(* Model of the download manager core: the persistent task store, the     *)
(* DownloadEngine (execute_task / pause_task / resume_task, the scheduler  *)
(* loop), the DownloadExecutionService worker (HTTP and HLS branches),     *)
(* the shared FileWriter and the ArchiveTaskListener.                      *)
(*                                                                         *)
(* Every repository call (one SQL statement + commit) is one step; every   *)
(* access to the engine's in-memory pause flag is one step; a network      *)
(* request whose result only reaches locals is merged with the step that   *)
(* follows it.                                                             *)
(***************************************************************************)
EXTENDS Integers, FiniteSets, Sequences, TLC

\* ---------------------------------------------------------------- bounds
NumTasks   == 2      \* tasks in the active table at start
NumCallers == 2      \* request threads calling the engine API
FileSize   == 2      \* chunks (HTTP) / segments (HLS) the server holds
NumFresh   == 2      \* ids uuid4 can still issue (add, clone_from_archive)

\* ------------------------------------------------------ program constants
MaxParallel == 1     \* DownloadEngine.__init__ max_parallel_downloads

Ids      == 1..(NumTasks + NumFresh)
Callers  == 1..NumCallers
Workers  == (NumCallers + 1)..(NumCallers + MaxParallel)  \* threads of _start_download_task
Threads  == Callers \cup Workers

None   == -1         \* Python None for an int (total) / absent file
NoRow  == [status |-> "none"]
\* the row of an id that was issued and then deleted: absent like NoRow, but
\* uuid4 never issues the id again
Gone   == [status |-> "none", deleted |-> TRUE]
\* get_by_queue_order found no row
NoTask == [id |-> 0, row |-> NoRow]

PENDING     == "pending"
DOWNLOADING == "downloading"
PAUSED      == "paused"
COMPLETED   == "completed"
FAILED      == "failed"
TaskStatus  == {PENDING, DOWNLOADING, PAUSED, COMPLETED, FAILED}

Kinds == {"range", "chunked", "hls"}

\* "full": a server that advertises Accept-Ranges: bytes and a Content-Length
\* but answers a GET that carries a Range header with 200 and the whole body
ServerKinds == Kinds \cup {"full"}

VARIABLES
  tasks,            \* table tasks: id -> row | NoRow
  archive,          \* table archive: id -> row | NoRow
  part,             \* size of <name>.part per task, None when absent
  final,            \* size of <name> per task, None when absent
  writer,           \* the one FileWriter shared by all workers
  pause_flags,      \* DownloadEngine._pause_flags
  active_downloads, \* DownloadEngine._active_downloads
  lock,             \* DownloadEngine._active_downloads_lock: "free" or its holder
  running,          \* DownloadEngine._running
  stop_requested,   \* DownloadEngine._stop_requested
  bg_running,       \* BackgroundEngineService._running
  sched,            \* the scheduler-loop thread: pc, pending list, active_count
  thr,              \* per thread: operation, position, locals
  kind,             \* what the server behind each task's url is
  flaky,            \* requests to the server and the store reads of a scan
                    \* may fail (fixed for a behaviour)
  reqActed,         \* a request thread has called the engine API
  progress          \* the MultiProgressManager: its aggregator's states, its
                    \* session counters, the snapshot last returned

vars == <<tasks, archive, part, final, writer, pause_flags, active_downloads,
          lock, running, stop_requested, bg_running, sched, thr, kind, flaky, progress, reqActed>>

\* ProgressSnapshot.total / ProgressState._total is None: the total is unknown
NoTotal == -9

NoState    == [phase |-> "none"]
NoSnapshot == [origin |-> "none"]
NoCall     == [op |-> "none"]

\* MultiProgressManager.__init__ (and ProgressAggregator.__init__)
NoProgress ==
  [states |-> [q \in 1..NumTasks |-> NoState],
   total_downloaded_at_completion |-> 0,
   completed_tasks_count |-> 0,
   snapshot |-> NoSnapshot,     \* the snapshot the last call returned
   last |-> NoCall,             \* the last call and its arguments
   removed |-> [q \in 1..NumTasks |-> NoTotal]]
                                \* downloaded of each state when it was removed

\* DownloadTask.create + SQLiteTaskRepository.add for the k-th added task
NewTask(k) ==
  [status |-> PENDING, downloaded |-> 0, total |-> None, resumable |-> TRUE,
   capability_checked |-> FALSE, queue_order |-> k]

IdleThread ==
  [op |-> "none", tid |-> 0, pc |-> "idle", task |-> NoRow,
   range_supported |-> FALSE, resume |-> FALSE, start_byte |-> 0, dl |-> 0,
   total_size |-> None, exc |-> FALSE,
   \* locals of the store operations
   new_id |-> 0,            \* id of the task DownloadTask.create made
   order1 |-> 0, order2 |-> 0, task1 |-> NoTask, task2 |-> NoTask,
   rows |-> <<>>,
   \* observers of the call in progress
   interrupted |-> FALSE,   \* the chunk loop stopped on the pause check
   pause |-> 0,             \* a pause_task on tid was (1) called, (2) set the flag,
                            \* (3) returned normally during this call
   streaming |-> FALSE,     \* a pause_task read the row while the chunk loop ran
   matched |-> FALSE,       \* resume_task began alone on a row whose downloaded
                            \* is the length of .part
   afterFlag |-> None,      \* chunks written since a pause_task set the flag
   finalized |-> FALSE]     \* the worker of this call produced the output file

\* the tasks added before the engine is used
Added == 1..NumTasks

\* a thread that runs (or ran) DownloadEngine._run_engine_loop; stopped is
\* an observer: a stop was requested since the thread started (1) and the
\* thread has passed its loop test after that (2)
NoLoop == [pc |-> "off", pending |-> <<>>, active_count |-> 0, stopped |-> 0]

InitWith(added, kinds, flk) ==
  /\ tasks = [t \in Ids |-> IF t \in added THEN NewTask(t) ELSE NoRow]
  /\ archive = [t \in Ids |-> NoRow]
  /\ part = [t \in Ids |-> None]
  /\ final = [t \in Ids |-> None]
  /\ writer = [tmp |-> 0, closed |-> TRUE, orphan |-> FALSE]
  /\ pause_flags = [t \in Ids |-> FALSE]
  /\ active_downloads = {}
  /\ lock = "free"
  /\ running = FALSE
  /\ stop_requested = FALSE
  /\ bg_running = FALSE
  /\ sched = [pc |-> "off", pending |-> <<>>, active_count |-> 0, stopped |-> 0,
              other |-> NoLoop]   \* a second loop thread, see EngineRestart
  /\ thr = [th \in Threads |-> IdleThread]
  /\ kind \in {k \in [Ids -> ServerKinds] : \A t \in Ids : k[t] \in (IF t \in added THEN kinds ELSE {"range"})}
  /\ flaky \in flk
  /\ progress = NoProgress
  /\ reqActed = FALSE

\* ------------------------------------------------------------ repository
Present(row) == row.status # "none"

\* SQLiteTaskRepository.get
Get(t) == tasks[t]

\* SQLiteTaskRepository.update: UPDATE tasks SET <every column> WHERE id=?
\* (no row with that id: nothing is changed and nothing is raised)
Update(t, row) ==
  IF Present(tasks[t]) THEN [tasks EXCEPT ![t] = row] ELSE tasks

\* ---------------------------------------------------------------- server
\* a request succeeds (TRUE) or fails (FALSE)
Outcomes == IF flaky THEN BOOLEAN ELSE {TRUE}

\* HttpDownloader.get_content_details: (is_resumable, content_length)
ContentDetails(t, ok) ==
  IF ok /\ kind[t] \in {"range", "full"}
    THEN [resumable |-> TRUE, length |-> FileSize]
    ELSE [resumable |-> FALSE, length |-> None]

\* HttpDownloader.check_range_support: Accept-Ranges == "bytes"
CheckRangeSupport(t, ok) == ok /\ kind[t] \in {"range", "chunked", "full"}

\* DownloadExecutionService._is_hls_stream
IsHlsStream(t) == kind[t] = "hls"

\* ---------------------------------------------------------- thread helpers
InCall(th)   == thr[th].pc # "idle"
WorkerPcs    == {"w_load", "w_probe", "w_range", "w_open", "w_get", "w_chunk",
                 "w_write", "w_persist", "w_after", "w_reset",
                 "h_fetch", "h_seg", "h_persist"}
InWorker(th) == thr[th].pc \in WorkerPcs
StreamPcs    == {"w_chunk", "w_write", "w_persist"}

\* has the caller passed a pause_check (execute_task does, resume_task does not)
HasPauseCheck(th) == thr[th].op = "execute"
PauseCheck(th)    == HasPauseCheck(th) /\ pause_flags[thr[th].tid]

\* the call returns or raises; a thread spawned by _start_download_task then
\* runs run_task's finally (lines 113-116)
Return(th) ==
  /\ th \in Workers => lock = "free"
  /\ thr' = [thr EXCEPT ![th] = IdleThread]
  /\ active_downloads' = IF th \in Workers
                           THEN active_downloads \ {thr[th].tid}
                           ELSE active_downloads

Goto(th, rec) ==
  /\ thr' = [thr EXCEPT ![th] = rec]
  /\ UNCHANGED active_downloads

\* an exception inside download_execution_service.execute: execute_task
\* catches it (line 228), resume_task lets it propagate
RaiseWith(th, rec) ==
  IF rec.op = "execute"
    THEN Goto(th, [IdleThread EXCEPT !.op = rec.op, !.tid = rec.tid,
                     !.pc = "x_get", !.exc = TRUE, !.pause = rec.pause])
    ELSE Return(th)

Raise(th) == RaiseWith(th, thr[th])

\* download_execution_service.execute returns normally: execute_task goes on
\* to its reread (line 204), resume_task returns
WorkerReturn(th, rec) ==
  IF rec.op = "execute"
    THEN Goto(th, [IdleThread EXCEPT !.op = rec.op, !.tid = rec.tid,
                     !.pc = "e_reread", !.pause = rec.pause,
                     !.finalized = rec.finalized])
    ELSE Return(th)

\* ------------------------------------------------------- request threads
\* a pause_task call on task t is in progress in another thread
PauseInProgress(th, t) ==
  \E o \in Threads \ {th} : thr[o].op = "pause" /\ thr[o].tid = t /\ InCall(o)

\* a request thread calls execute_task / pause_task / resume_task
Call(th, op, t) ==
  /\ th \in Callers
  /\ thr[th].pc = "idle"
  /\ \A o \in Callers : o < th => InCall(o)   \* idle threads are interchangeable
  /\ thr' = [thr EXCEPT ![th] =
       [IdleThread EXCEPT !.op = op, !.tid = t,
          !.pc = CASE op = "execute" -> "e_get"
                   [] op = "resume"  -> "r_get"
                   [] op = "pause"   -> "p_get",
          !.pause = IF op # "pause" /\ PauseInProgress(th, t) THEN 1 ELSE 0]]
  /\ reqActed' = TRUE
  /\ UNCHANGED <<tasks, archive, part, final, writer, pause_flags,
                 active_downloads, lock, running, stop_requested, bg_running,
                 sched, kind, flaky, progress>>

\* ----------------------------------------------- DownloadEngine.execute_task
\* the same without the validation of the source status
ExecuteTaskGetAnyStatus(th) ==
  /\ thr[th].pc = "e_get"
  /\ LET t == thr[th].tid  row == Get(t) IN
       IF Present(row)
         THEN Goto(th, [thr[th] EXCEPT !.pc = "e_flag", !.task = row])
         ELSE Return(th)
  /\ UNCHANGED <<tasks, archive, part, final, writer, pause_flags, lock,
                 running, stop_requested, bg_running, sched, kind, flaky, progress, reqActed>>

\* lines 178-184: repo.get and the validation of the source status
ExecuteTaskGet(th) ==
  /\ thr[th].pc = "e_get"
  /\ LET t == thr[th].tid  row == Get(t) IN
       IF Present(row) /\ row.status \in {PENDING, PAUSED}
         THEN Goto(th, [thr[th] EXCEPT !.pc = "e_flag", !.task = row])
         ELSE Return(th)
  /\ UNCHANGED <<tasks, archive, part, final, writer, pause_flags, lock,
                 running, stop_requested, bg_running, sched, kind, flaky, progress, reqActed>>

\* line 187: self._set_pause_flag(task_id, False)
ExecuteTaskClearFlag(th) ==
  /\ thr[th].pc = "e_flag"
  /\ pause_flags' = [pause_flags EXCEPT ![thr[th].tid] = FALSE]
  /\ Goto(th, [thr[th] EXCEPT !.pc = "e_mark"])
  /\ UNCHANGED <<tasks, archive, part, final, writer, lock, running,
                 stop_requested, bg_running, sched, kind, flaky, progress, reqActed>>

\* lines 190-191: task.status = DOWNLOADING; repo.update(task)
ExecuteTaskMark(th) ==
  /\ thr[th].pc = "e_mark"
  /\ tasks' = Update(thr[th].tid, [thr[th].task EXCEPT !.status = DOWNLOADING])
  /\ Goto(th, [thr[th] EXCEPT !.pc = "w_load"])
  /\ UNCHANGED <<archive, part, final, writer, pause_flags, lock, running,
                 stop_requested, bg_running, sched, kind, flaky, progress, reqActed>>

\* lines 204-207: the reread after the worker returned
ExecuteTaskReread(th) ==
  /\ thr[th].pc = "e_reread"
  /\ LET row == Get(thr[th].tid) IN
       IF Present(row) /\ row.status # PAUSED
         THEN Goto(th, [thr[th] EXCEPT !.pc = "e_complete", !.task = row])
         ELSE Return(th)
  /\ UNCHANGED <<tasks, archive, part, final, writer, pause_flags, lock,
                 running, stop_requested, bg_running, sched, kind, flaky, progress, reqActed>>

\* lines 210-212: task.status = COMPLETED; repo.update(task)
ExecuteTaskComplete(th) ==
  /\ thr[th].pc = "e_complete"
  /\ tasks' = Update(thr[th].tid, [thr[th].task EXCEPT !.status = COMPLETED])
  /\ Goto(th, [thr[th] EXCEPT !.pc = "n_get"])
  /\ UNCHANGED <<archive, part, final, writer, pause_flags, lock, running,
                 stop_requested, bg_running, sched, kind, flaky, progress, reqActed>>

\* lines 228-231: except Exception: task = repo.get(task_id)
ExecuteTaskExceptGet(th) ==
  /\ thr[th].pc = "x_get"
  /\ LET row == Get(thr[th].tid) IN
       IF Present(row)
         THEN Goto(th, [thr[th] EXCEPT !.pc = "x_fail", !.task = row])
         ELSE Return(th)
  /\ UNCHANGED <<tasks, archive, part, final, writer, pause_flags, lock,
                 running, stop_requested, bg_running, sched, kind, flaky, progress, reqActed>>

\* lines 232-233: task.status = FAILED; repo.update(task)
ExecuteTaskFail(th) ==
  /\ thr[th].pc = "x_fail"
  /\ tasks' = Update(thr[th].tid, [thr[th].task EXCEPT !.status = FAILED])
  /\ Goto(th, [thr[th] EXCEPT !.pc = "n_get"])
  /\ UNCHANGED <<archive, part, final, writer, pause_flags, lock, running,
                 stop_requested, bg_running, sched, kind, flaky, progress, reqActed>>

\* ------------------------------- TaskEventManager.notify_task_finished
\* ArchiveTaskListener.on_task_finished -> ArchiveService.archive_task:
\* repo.get and the status check (any exception is swallowed by the listener)
ListenerGet(th) ==
  /\ thr[th].pc = "n_get"
  /\ LET row == Get(thr[th].tid) IN
       IF Present(row) /\ row.status \in {COMPLETED, FAILED}
         THEN Goto(th, [thr[th] EXCEPT !.pc = "n_move"])
         ELSE Return(th)
  /\ UNCHANGED <<tasks, archive, part, final, writer, pause_flags, lock,
                 running, stop_requested, bg_running, sched, kind, flaky, progress, reqActed>>

\* SQLiteTaskRepository.archive_task, lines 260-262: task = self.get(task_id),
\* read before any transaction is open (row gone: ValueError)
ArchiveTaskGet(th) ==
  /\ thr[th].pc = "n_move"
  /\ LET row == Get(thr[th].tid) IN
       IF Present(row)
         THEN Goto(th, [thr[th] EXCEPT !.pc = "n_txn", !.task = row])
         ELSE Return(th)
  /\ UNCHANGED <<tasks, archive, part, final, writer, pause_flags, lock,
                 running, stop_requested, bg_running, sched, kind, flaky, progress, reqActed>>

\* the INSERT is applied and committed, the DELETE is not
ArchiveInsertOnly(t, row) ==
  /\ archive' = [archive EXCEPT ![t] = row]
  /\ UNCHANGED tasks

\* the transaction INSERT INTO archive ... DELETE FROM tasks ... commit
ArchiveCommit(t, row) ==
  /\ archive' = [archive EXCEPT ![t] = row]
  /\ tasks' = [tasks EXCEPT ![t] = IF Present(@) THEN NoRow ELSE @]

\* SQLiteTaskRepository.archive_task, lines 268-277: INSERT INTO archive the
\* values read above, DELETE FROM tasks, commit: one transaction (archive.id
\* is a PRIMARY KEY: the INSERT of an archived id raises IntegrityError and
\* nothing is written)
ArchiveTask(th) ==
  /\ thr[th].pc = "n_txn"
  /\ LET t == thr[th].tid IN
       IF ~Present(archive[t])
         THEN ArchiveCommit(t, thr[th].task)
         ELSE UNCHANGED <<archive, tasks>>
  /\ Return(th)
  /\ UNCHANGED <<part, final, writer, pause_flags, lock, running,
                 stop_requested, bg_running, sched, kind, flaky, progress, reqActed>>

\* ------------------------------------------------- DownloadEngine.pause_task
\* the executions of task t that a pause_task step of thread th overlaps
Overlapped(th, t) ==
  {o \in Threads \ {th} : thr[o].op \in {"execute", "resume"} /\ thr[o].tid = t /\ InCall(o)}

\* lines 134-140: repo.get and the validation of the source status
PauseTaskGet(th) ==
  /\ thr[th].pc = "p_get"
  /\ LET t == thr[th].tid  row == Get(t)
         ok == Present(row) /\ row.status = DOWNLOADING IN
       thr' = [o \in Threads |->
                 IF o = th
                   THEN IF ok THEN [thr[th] EXCEPT !.pc = "p_flag", !.task = row]
                              ELSE IdleThread
                   ELSE IF o \in Overlapped(th, t)
                          THEN [thr[o] EXCEPT !.pause = IF @ < 1 THEN 1 ELSE @,
                                  !.streaming = @ \/ (ok /\ thr[o].pc \in StreamPcs)]
                          ELSE thr[o]]
  /\ UNCHANGED <<tasks, archive, part, final, writer, pause_flags,
                 active_downloads, lock, running, stop_requested, bg_running,
                 sched, kind, flaky, progress, reqActed>>

\* line 143: self._set_pause_flag(task_id, True)
PauseTaskSetFlag(th) ==
  /\ thr[th].pc = "p_flag"
  /\ LET t == thr[th].tid IN
       /\ pause_flags' = [pause_flags EXCEPT ![t] = TRUE]
       /\ thr' = [o \in Threads |->
                    IF o = th
                      THEN [thr[th] EXCEPT !.pc = "p_mark"]
                      ELSE IF o \in Overlapped(th, t)
                             THEN [thr[o] EXCEPT !.pause = IF @ < 2 THEN 2 ELSE @,
                                     !.afterFlag = IF InWorker(o) /\ @ = None THEN 0 ELSE @]
                             ELSE thr[o]]
  /\ UNCHANGED <<tasks, archive, part, final, writer, active_downloads, lock,
                 running, stop_requested, bg_running, sched, kind, flaky, progress, reqActed>>

\* lines 146-147: task.status = PAUSED; repo.update(task)
PauseTaskMark(th) ==
  /\ thr[th].pc = "p_mark"
  /\ LET t == thr[th].tid IN
       /\ tasks' = Update(t, [thr[th].task EXCEPT !.status = PAUSED])
       /\ thr' = [o \in Threads |->
                    IF o = th
                      THEN IdleThread
                      ELSE IF o \in Overlapped(th, t)
                             THEN [thr[o] EXCEPT !.pause = IF @ < 3 THEN 3 ELSE @]
                             ELSE thr[o]]
  /\ UNCHANGED <<archive, part, final, writer, pause_flags, active_downloads,
                 lock, running, stop_requested, bg_running, sched, kind, flaky, progress, reqActed>>

\* ------------------------------------------------ DownloadEngine.resume_task
\* lines 154-160: repo.get and the validation of the source status
ResumeTaskGet(th) ==
  /\ thr[th].pc = "r_get"
  /\ LET t == thr[th].tid  row == Get(t) IN
       IF Present(row) /\ row.status = PAUSED
         THEN Goto(th, [thr[th] EXCEPT !.pc = "r_flag", !.task = row,
                !.matched = part[t] = row.downloaded
                            /\ \A o \in Threads \ {th} : ~(InCall(o) /\ thr[o].tid = t)])
         ELSE Return(th)
  /\ UNCHANGED <<tasks, archive, part, final, writer, pause_flags, lock,
                 running, stop_requested, bg_running, sched, kind, flaky, progress, reqActed>>

\* line 163: self._set_pause_flag(task_id, False)
ResumeTaskClearFlag(th) ==
  /\ thr[th].pc = "r_flag"
  /\ pause_flags' = [pause_flags EXCEPT ![thr[th].tid] = FALSE]
  /\ Goto(th, [thr[th] EXCEPT !.pc = "r_mark"])
  /\ UNCHANGED <<tasks, archive, part, final, writer, lock, running,
                 stop_requested, bg_running, sched, kind, flaky, progress, reqActed>>

\* lines 166-170: task.status = DOWNLOADING; repo.update(task); then
\* download_execution_service.execute(task_id) with no pause_check
ResumeTaskMark(th) ==
  /\ thr[th].pc = "r_mark"
  /\ tasks' = Update(thr[th].tid, [thr[th].task EXCEPT !.status = DOWNLOADING])
  /\ Goto(th, [thr[th] EXCEPT !.pc = "w_load"])
  /\ UNCHANGED <<archive, part, final, writer, pause_flags, lock, running,
                 stop_requested, bg_running, sched, kind, flaky, progress, reqActed>>

\* ------------------------------------- DownloadExecutionService.execute
\* lines 27-52: repo.get, the status check, the dispatch on the url
WorkerLoad(th) ==
  /\ thr[th].pc = "w_load"
  /\ LET t == thr[th].tid  row == Get(t) IN
       IF Present(row) /\ row.status = DOWNLOADING
         THEN Goto(th, [thr[th] EXCEPT !.task = row,
                !.pc = IF IsHlsStream(t) THEN "h_fetch"
                       ELSE IF ~row.capability_checked THEN "w_probe"
                       ELSE "w_range"])
         ELSE Raise(th)
  /\ UNCHANGED <<tasks, archive, part, final, writer, pause_flags, lock,
                 running, stop_requested, bg_running, sched, kind, flaky, progress, reqActed>>

\* _execute_regular_download lines 116-129: probe, then persist its result
ProbePersist(th) ==
  /\ thr[th].pc = "w_probe"
  /\ \E ok \in Outcomes :
       LET t == thr[th].tid
           d == ContentDetails(t, ok)
           old == thr[th].task
           new == [old EXCEPT !.resumable = d.resumable,
                              !.capability_checked = TRUE,
                              !.total = IF d.length > 0 /\ old.total \in {None, 0}
                                          THEN d.length ELSE @]
       IN /\ tasks' = Update(t, new)
          /\ Goto(th, [thr[th] EXCEPT !.task = new, !.pc = "w_range"])
  /\ UNCHANGED <<archive, part, final, writer, pause_flags, lock, running,
                 stop_requested, bg_running, sched, kind, flaky, progress, reqActed>>

\* lines 135-151: range check and the resume decision
ResumeDecision(th) ==
  /\ thr[th].pc = "w_range"
  /\ \E ok \in Outcomes :
       LET t == thr[th].tid
           task == thr[th].task
           rs == CheckRangeSupport(t, ok)
           rsm == /\ task.downloaded > 0 /\ rs /\ task.resumable
                  /\ part[t] # None /\ part[t] = task.downloaded
       IN /\ Goto(th, [thr[th] EXCEPT !.range_supported = rs, !.resume = rsm,
                         !.start_byte = IF rsm THEN task.downloaded ELSE 0,
                         !.pc = "w_open"])
  /\ UNCHANGED <<tasks, archive, part, final, writer, pause_flags, lock,
                 running, stop_requested, bg_running, sched, kind, flaky, progress, reqActed>>

\* FileWriter.open
WriterOpenPart(t, resume) ==
  IF resume /\ part[t] # None THEN part ELSE [part EXCEPT ![t] = 0]

\* lines 154-159: writer.open(filename, resume) and the start_byte adjustment
WriterOpen(th) ==
  /\ thr[th].pc = "w_open"
  /\ LET t == thr[th].tid
         np == WriterOpenPart(t, thr[th].resume)
         adjust == thr[th].resume /\ thr[th].start_byte # np[t]
     IN /\ part' = np
        /\ writer' = [tmp |-> t, closed |-> FALSE, orphan |-> FALSE]
        /\ Goto(th, [thr[th] EXCEPT
              !.start_byte = IF adjust THEN np[t] ELSE @,
              !.task = IF adjust THEN [@ EXCEPT !.downloaded = np[t]] ELSE @,
              !.pc = "w_get"])
  /\ UNCHANGED <<tasks, archive, final, pause_flags, lock, running,
                 stop_requested, bg_running, sched, kind, flaky, progress, reqActed>>

\* the response headers' total when download() is given total_size = None:
\* Content-Range for a ranged request, else Content-Length
HeaderTotal(t, start) ==
  IF kind[t] \in {"range", "full"} THEN FileSize ELSE None

\* lines 182-198 and HttpDownloader.download lines 68-91: choose the request,
\* send it; raise_for_status raises on a failed request and on 416 (a Range
\* starting at or after the end of the resource); downloaded = start_byte
\* whatever the status of the response is. start_byte is kept only to tell
\* where the body of a "full" server ends.
HttpGet(th) ==
  /\ thr[th].pc = "w_get"
  \* (bound) a transfer that starts at or after the end of a "full" server's
  \* resource is not followed: each one would add FileSize bytes more
  /\ (kind[thr[th].tid] = "full" /\ thr[th].range_supported /\ thr[th].task.resumable)
       => thr[th].start_byte < FileSize
  /\ \E ok \in Outcomes :
       LET t == thr[th].tid
           task == thr[th].task
           ranged == thr[th].range_supported /\ task.resumable
           restart == ~ranged /\ thr[th].start_byte > 0
           start == IF ranged THEN thr[th].start_byte ELSE 0
           ntask == IF restart THEN [task EXCEPT !.downloaded = 0] ELSE task
           given == IF ranged THEN task.total ELSE None
           rec == [thr[th] EXCEPT !.task = ntask, !.dl = start,
                     !.start_byte = IF kind[t] = "full" THEN start ELSE 0,
                     !.resume = FALSE, !.range_supported = FALSE,
                     !.total_size = IF given = None THEN HeaderTotal(t, start) ELSE given]
       IN /\ IF restart
               THEN /\ part' = [part EXCEPT ![t] = 0]
                    /\ writer' = [tmp |-> t, closed |-> FALSE, orphan |-> FALSE]
                    /\ tasks' = Update(t, ntask)
               ELSE UNCHANGED <<part, writer, tasks>>
          /\ IF ok /\ (start < FileSize \/ kind[t] = "full")
               THEN Goto(th, [rec EXCEPT !.pc = "w_chunk"])
               ELSE RaiseWith(th, rec)
  /\ UNCHANGED <<archive, final, pause_flags, lock, running, stop_requested,
                 bg_running, sched, kind, flaky, progress, reqActed>>

\* HttpDownloader.download lines 93-98: the next chunk arrives (or the stream
\* ends, or the connection fails), then the pause check
NextChunk(th) ==
  /\ thr[th].pc = "w_chunk"
  /\ IF thr[th].dl >= FileSize + thr[th].start_byte
       THEN Goto(th, [thr[th] EXCEPT !.pc = "w_after", !.dl = 0, !.total_size = None,
                        !.start_byte = 0])
       ELSE \E ok \in Outcomes :
              IF ~ok THEN Raise(th)
              ELSE IF PauseCheck(th)
                THEN Goto(th, [thr[th] EXCEPT !.pc = "w_after", !.interrupted = TRUE,
                                 !.dl = 0, !.total_size = None, !.start_byte = 0])
                ELSE Goto(th, [thr[th] EXCEPT !.pc = "w_write", !.dl = @ + 1])
  /\ UNCHANGED <<tasks, archive, part, final, writer, pause_flags, lock,
                 running, stop_requested, bg_running, sched, kind, flaky, progress, reqActed>>

\* FileWriter.write: self.fp.write(data) on the shared writer's current file
WriterWrite ==
  IF writer.orphan \/ part[writer.tmp] = None
    THEN part
    ELSE [part EXCEPT ![writer.tmp] = @ + 1]

\* on_chunk line 164: self.writer.write(chunk)
OnChunkWrite(th) ==
  /\ thr[th].pc = "w_write"
  /\ IF writer.closed
       THEN Raise(th) /\ UNCHANGED part
       ELSE /\ part' = WriterWrite
            /\ Goto(th, [thr[th] EXCEPT !.pc = "w_persist",
                           !.afterFlag = IF @ = None THEN @ ELSE @ + 1])
  /\ UNCHANGED <<tasks, archive, final, writer, pause_flags, lock, running,
                 stop_requested, bg_running, sched, kind, flaky, progress, reqActed>>

\* on_chunk lines 167-172: task.downloaded, task.total; repo.update(task)
OnChunkPersist(th) ==
  /\ thr[th].pc = "w_persist"
  /\ LET ts == thr[th].total_size
         new == [thr[th].task EXCEPT !.downloaded = thr[th].dl,
                                     !.total = IF ts > 0 THEN ts ELSE @]
     IN /\ tasks' = Update(thr[th].tid, new)
        /\ Goto(th, [thr[th] EXCEPT !.task = new, !.pc = "w_chunk"])
  /\ UNCHANGED <<archive, part, final, writer, pause_flags, lock, running,
                 stop_requested, bg_running, sched, kind, flaky, progress, reqActed>>

\* lines 202-228: pause_check() again; paused: writer.close(), else
\* writer.finalize() (close, unlink an old final file, rename .part)
AfterDownload(th) ==
  /\ thr[th].pc = "w_after"
  /\ writer' = [writer EXCEPT !.closed = TRUE]
  /\ IF PauseCheck(th)
       THEN /\ IF ~thr[th].task.resumable /\ thr[th].task.downloaded > 0
                 THEN Goto(th, [thr[th] EXCEPT !.pc = "w_reset"])
                 ELSE WorkerReturn(th, thr[th])
            /\ UNCHANGED <<part, final>>
       ELSE LET f == writer.tmp IN
            IF part[f] = None
              THEN /\ final' = [final EXCEPT ![f] = None]
                   /\ UNCHANGED part
                   /\ Raise(th)
              ELSE /\ final' = [final EXCEPT ![f] = part[f]]
                   /\ part' = [part EXCEPT ![f] = None]
                   /\ WorkerReturn(th, [thr[th] EXCEPT !.finalized = TRUE])
  /\ UNCHANGED <<tasks, archive, pause_flags, lock, running, stop_requested,
                 bg_running, sched, kind, flaky, progress, reqActed>>

\* lines 214-222: non-resumable and paused: unlink .part, downloaded = 0
ResetPersist(th) ==
  /\ thr[th].pc = "w_reset"
  /\ LET t == thr[th].tid
         new == [thr[th].task EXCEPT !.downloaded = 0]
     IN /\ part' = [part EXCEPT ![t] = None]
        /\ writer' = IF writer.tmp = t /\ ~writer.closed /\ part[t] # None
                       THEN [writer EXCEPT !.orphan = TRUE] ELSE writer
        /\ tasks' = Update(t, new)
        /\ WorkerReturn(th, [thr[th] EXCEPT !.task = new])
  /\ UNCHANGED <<archive, final, pause_flags, lock, running, stop_requested,
                 bg_running, sched, kind, flaky, progress, reqActed>>

\* ------------------------------- _execute_hls_download / HlsDownloader
\* download_variant returns False or True; _execute_hls_download ignores the
\* value, reads pause_check() (line 94) and returns normally either way
HlsFetchPlaylist(th) ==
  /\ thr[th].pc = "h_fetch"
  /\ \E ok \in Outcomes :
       IF ok THEN Goto(th, [thr[th] EXCEPT !.pc = "h_seg", !.dl = 0])
             ELSE WorkerReturn(th, thr[th])
  /\ UNCHANGED <<tasks, archive, part, final, writer, pause_flags, lock,
                 running, stop_requested, bg_running, sched, kind, flaky, progress, reqActed>>

\* hls_downloader.py lines 52-76: pause check, fetch one segment into the
\* scratch directory; after the last one _merge_segments writes output_path
HlsSegment(th) ==
  /\ thr[th].pc = "h_seg"
  /\ IF thr[th].dl >= FileSize
       THEN /\ final' = [final EXCEPT ![thr[th].tid] = FileSize]
            /\ WorkerReturn(th, [thr[th] EXCEPT !.finalized = TRUE])
       ELSE /\ UNCHANGED final
            /\ IF PauseCheck(th)
                 THEN WorkerReturn(th, thr[th])
                 ELSE \E ok \in Outcomes :
                        IF ok
                          THEN Goto(th, [thr[th] EXCEPT !.pc = "h_persist",
                                 !.dl = @ + 1,
                                 !.afterFlag = IF @ = None THEN @ ELSE @ + 1])
                          ELSE WorkerReturn(th, thr[th])
  /\ UNCHANGED <<tasks, archive, part, writer, pause_flags, lock, running,
                 stop_requested, bg_running, sched, kind, flaky, progress, reqActed>>

\* progress_callback lines 69-76: task.downloaded = downloaded; repo.update
HlsPersist(th) ==
  /\ thr[th].pc = "h_persist"
  /\ LET new == [thr[th].task EXCEPT !.downloaded = thr[th].dl]
     IN /\ tasks' = Update(thr[th].tid, new)
        /\ Goto(th, [thr[th] EXCEPT !.task = new, !.pc = "h_seg"])
  /\ UNCHANGED <<archive, part, final, writer, pause_flags, lock, running,
                 stop_requested, bg_running, sched, kind, flaky, progress, reqActed>>

\* ------------------------------------------- BackgroundEngineService
\* start(): spawn the loop thread, which runs DownloadEngine.start()
EngineStart ==
  /\ ~bg_running
  /\ sched.pc = "off"
  /\ bg_running' = TRUE
  /\ IF running
       THEN UNCHANGED <<running, stop_requested, sched>>
       ELSE /\ running' = TRUE
            /\ stop_requested' = FALSE
            /\ sched' = [sched EXCEPT !.pc = "loop", !.stopped = 0]
  /\ UNCHANGED <<tasks, archive, part, final, writer, pause_flags,
                 active_downloads, lock, thr, kind, flaky, progress, reqActed>>

\* stop(): DownloadEngine.stop()
EngineStop ==
  /\ bg_running
  /\ stop_requested' = TRUE
  /\ running' = FALSE
  /\ bg_running' = FALSE
  /\ sched' = [sched EXCEPT
       !.stopped = IF sched.pc = "off" THEN @ ELSE 1,
       !.other.stopped = IF sched.other.pc = "off" THEN @ ELSE 1]
  /\ UNCHANGED <<tasks, archive, part, final, writer, pause_flags,
                 active_downloads, lock, thr, kind, flaky, progress, reqActed>>

\* ------------------------------------- DownloadEngine._run_engine_loop
\* list_by_queue_order() filtered on PENDING: ids in ascending queue_order
RECURSIVE SortByOrder(_)
SortByOrder(S) ==
  IF S = {} THEN <<>>
  ELSE LET m == CHOOSE x \in S : \A y \in S :
                  \/ tasks[x].queue_order < tasks[y].queue_order
                  \/ (tasks[x].queue_order = tasks[y].queue_order /\ x <= y)
       IN <<m>> \o SortByOrder(S \ {m})

PendingTasks == SortByOrder({t \in Ids : Present(tasks[t]) /\ tasks[t].status = PENDING})

\* line 58: while self._running and not self._stop_requested
LoopTest ==
  /\ sched.pc = "loop"
  /\ sched' = IF running /\ ~stop_requested
                THEN [sched EXCEPT !.pc = "scan", !.stopped = IF @ = 0 THEN 0 ELSE 2]
                ELSE [sched EXCEPT !.pc = "off"]
  /\ UNCHANGED <<tasks, archive, part, final, writer, pause_flags,
                 active_downloads, lock, running, stop_requested, bg_running,
                 thr, kind, flaky, progress, reqActed>>

\* lines 61-65: the two reads of the scan; a store error raised by either
\* is caught at line 86
Scan ==
  /\ sched.pc = "scan"
  /\ \E ok \in Outcomes :
       sched' = IF ok THEN [sched EXCEPT !.pc = "count", !.pending = PendingTasks]
                      ELSE [sched EXCEPT !.pc = "backoff"]
  /\ UNCHANGED <<tasks, archive, part, final, writer, pause_flags,
                 active_downloads, lock, running, stop_requested, bg_running,
                 thr, kind, flaky, progress, reqActed>>

\* lines 68-69: with lock: active_count = len(self._active_downloads)
CountActive ==
  /\ sched.pc = "count"
  /\ lock = "free"
  /\ sched' = [sched EXCEPT !.pc = "iter", !.active_count = Cardinality(active_downloads)]
  /\ UNCHANGED <<tasks, archive, part, final, writer, pause_flags,
                 active_downloads, lock, running, stop_requested, bg_running,
                 thr, kind, flaky, progress, reqActed>>

\* lines 72-77: next pending task; stop at the limit; acquire the lock
NextPending ==
  /\ sched.pc = "iter"
  /\ IF sched.pending = <<>> \/ sched.active_count >= MaxParallel
       THEN /\ sched' = [sched EXCEPT !.pc = "sleep", !.pending = <<>>]
            /\ UNCHANGED lock
       ELSE /\ lock = "free"
            /\ lock' = "sched"
            /\ sched' = [sched EXCEPT !.pc = "check"]
  /\ UNCHANGED <<tasks, archive, part, final, writer, pause_flags,
                 active_downloads, running, stop_requested, bg_running, thr,
                 kind, flaky, progress, reqActed>>

\* threading.Lock.acquire by the scheduler thread: the lock is not reentrant
LockAvailable == lock = "free"

\* lines 78-81 with _start_download_task (lines 101-120) inlined: the callee
\* takes self._active_downloads_lock again while the loop still holds it
StartDownloadTask ==
  /\ sched.pc = "check"
  /\ LET t == Head(sched.pending) IN
       IF t \in active_downloads
         THEN /\ lock' = "free"
              /\ sched' = [sched EXCEPT !.pc = "iter", !.pending = Tail(@)]
              /\ UNCHANGED <<active_downloads, thr>>
         ELSE IF ~LockAvailable
           THEN /\ sched' = [sched EXCEPT !.pc = "blocked"]
                /\ UNCHANGED <<lock, active_downloads, thr>>
           ELSE \E w \in Workers :
                  /\ thr[w].pc = "idle"
                  /\ active_downloads' = active_downloads \cup {t}
                  /\ thr' = [thr EXCEPT ![w] =
                       [IdleThread EXCEPT !.op = "execute", !.tid = t, !.pc = "e_get"]]
                  /\ lock' = "free"
                  /\ sched' = [sched EXCEPT !.pc = "iter", !.pending = Tail(@),
                                 !.active_count = @ + 1]
  /\ UNCHANGED <<tasks, archive, part, final, writer, pause_flags, running,
                 stop_requested, bg_running, kind, flaky, progress, reqActed>>

\* line 84: time.sleep(0.2), then back to the loop test
Sleep ==
  /\ sched.pc = "sleep"
  /\ sched' = [sched EXCEPT !.pc = "loop"]
  /\ UNCHANGED <<tasks, archive, part, final, writer, pause_flags,
                 active_downloads, lock, running, stop_requested, bg_running,
                 thr, kind, flaky, progress, reqActed>>

\* the loop ends although nobody asked it to stop
BackoffExits ==
  /\ sched.pc = "backoff"
  /\ sched' = [sched EXCEPT !.pc = "off"]
  /\ UNCHANGED <<tasks, archive, part, final, writer, pause_flags,
                 active_downloads, lock, running, stop_requested, bg_running,
                 thr, kind, flaky, progress, reqActed>>

\* lines 86-89: except Exception: print, time.sleep(1), back to the loop test
Backoff ==
  /\ sched.pc = "backoff"
  /\ sched' = [sched EXCEPT !.pc = "loop"]
  /\ UNCHANGED <<tasks, archive, part, final, writer, pause_flags,
                 active_downloads, lock, running, stop_requested, bg_running,
                 thr, kind, flaky, progress, reqActed>>

\* ------------------------------------------------------- store operations
StoreFrame ==
  UNCHANGED <<part, final, writer, pause_flags, lock, running, stop_requested,
              bg_running, sched, kind, flaky, progress, reqActed>>

\* SELECT * FROM tasks: the ids of the rows of the active table
ActiveIds == {t \in Ids : Present(tasks[t])}

\* str(uuid4()) in DownloadTask.create: an id that was never issued before
Issued(t) ==
  \/ tasks[t] # NoRow
  \/ archive[t] # NoRow
  \/ \E o \in Threads : thr[o].new_id = t

HasFresh == \E t \in Ids : ~Issued(t)

FreshId == CHOOSE t \in Ids : ~Issued(t) /\ \A u \in Ids : ~Issued(u) => t <= u

\* SELECT MAX(queue_order) FROM tasks, then (max_order or 0)
MaxOrder ==
  IF ActiveIds = {} THEN 0
  ELSE LET t == CHOOSE x \in ActiveIds :
                  \A y \in ActiveIds : tasks[y].queue_order <= tasks[x].queue_order
       IN tasks[t].queue_order

\* SELECT * FROM tasks ORDER BY queue_order
OrderedRows ==
  LET ids == SortByOrder(ActiveIds) IN
    [i \in 1..Len(ids) |-> [id |-> ids[i], queue_order |-> tasks[ids[i]].queue_order]]

\* SQLiteTaskRepository.get_by_queue_order: fetchone() of the rows with that
\* queue_order (the first one in the table's order)
GetByQueueOrder(q) ==
  LET S == {t \in ActiveIds : tasks[t].queue_order = q} IN
    IF S = {} THEN NoTask
    ELSE LET t == CHOOSE x \in S : \A y \in S : x <= y
         IN [id |-> t, row |-> tasks[t]]

\* SQLiteTaskRepository._fix_queue_order on table tk: the rows with
\* queue_order 0 get max+1, max+2, ... in the order of their ids
FixQueueOrder(tk) ==
  LET Z == {t \in Ids : Present(tk[t]) /\ tk[t].queue_order = 0}
      P == {t \in Ids : Present(tk[t]) /\ tk[t].queue_order > 0}
      mx == IF P = {} THEN 0
            ELSE LET t == CHOOSE x \in P : \A y \in P : tk[y].queue_order <= tk[x].queue_order
                 IN tk[t].queue_order
  IN [t \in Ids |-> IF t \in Z
                      THEN [tk[t] EXCEPT !.queue_order = mx + Cardinality({u \in Z : u <= t})]
                      ELSE tk[t]]

\* a request thread calls an operation of the store or of a use-case service
StoreCall(th, op, t, q1, q2) ==
  /\ th \in Callers
  /\ thr[th].pc = "idle"
  /\ \A o \in Callers : o < th => InCall(o)   \* idle threads are interchangeable
  /\ op \in {"add", "clone"} => HasFresh
  /\ thr' = [thr EXCEPT ![th] =
       [IdleThread EXCEPT !.op = op, !.tid = t, !.order1 = q1, !.order2 = q2,
          !.new_id = IF op \in {"add", "clone"} THEN FreshId ELSE 0,
          !.pc = CASE op = "add" -> "a_max"
                   [] op = "clone" -> "c_get"
                   [] op \in {"delete", "remove"} -> "d_del"
                   [] op = "normalize" -> "z_read"
                   [] op = "move_up" -> "m_up"
                   [] op \in {"move_down", "swap"} -> "m_list"
                   [] op = "swap_queue_orders" -> "s_get1"
                   [] op = "list_by_queue_order" -> "l_read"
                   [] op = "archive" -> "n_get"]]
  /\ reqActed' = TRUE
  /\ UNCHANGED <<tasks, archive, part, final, writer, pause_flags,
                 active_downloads, lock, running, stop_requested, bg_running,
                 sched, kind, flaky, progress>>

\* SQLiteTaskRepository.add, lines 85-89: SELECT MAX(queue_order), outside
\* any transaction; task.queue_order = (max_order or 0) + 1
AddMax(th) ==
  /\ thr[th].pc = "a_max"
  /\ Goto(th, [thr[th] EXCEPT !.pc = "a_ins", !.task = NewTask(MaxOrder + 1)])
  /\ UNCHANGED <<tasks, archive>>
  /\ StoreFrame

\* SQLiteTaskRepository.add, lines 91-95: INSERT INTO tasks, commit
\* (tasks.id is a PRIMARY KEY: a present id raises IntegrityError)
AddInsert(th) ==
  /\ thr[th].pc = "a_ins"
  /\ tasks' = IF Present(tasks[thr[th].new_id]) THEN tasks
              ELSE [tasks EXCEPT ![thr[th].new_id] = thr[th].task]
  /\ IF Present(tasks[thr[th].new_id])
       THEN Return(th)
       ELSE Goto(th, [thr[th] EXCEPT !.pc = "a_done"])
  /\ UNCHANGED archive
  /\ StoreFrame

\* AddTaskService.execute and clone_from_archive return the new task
AddReturn(th) ==
  /\ thr[th].pc = "a_done"
  /\ Return(th)
  /\ UNCHANGED <<tasks, archive>>
  /\ StoreFrame

\* the clone takes the id of the archived task
CloneGetSameId(th) ==
  /\ thr[th].pc = "c_get"
  /\ IF Present(archive[thr[th].tid])
       THEN Goto(th, [thr[th] EXCEPT !.pc = "a_max", !.new_id = thr[th].tid])
       ELSE Return(th)
  /\ UNCHANGED <<tasks, archive>>
  /\ StoreFrame

\* ArchiveService.clone_from_archive, lines 34-46: get_from_archive, then
\* DownloadTask.create and the resets; repo.add follows
CloneGet(th) ==
  /\ thr[th].pc = "c_get"
  /\ IF Present(archive[thr[th].tid])
       THEN Goto(th, [thr[th] EXCEPT !.pc = "a_max"])
       ELSE Return(th)
  /\ UNCHANGED <<tasks, archive>>
  /\ StoreFrame

\* SQLiteTaskRepository.delete: DELETE, _fix_queue_order, commit;
\* RemoveTaskService.execute goes on to normalize_queue_order
DeleteRow(th) ==
  /\ thr[th].pc = "d_del"
  /\ tasks' = FixQueueOrder([tasks EXCEPT ![thr[th].tid] = IF Present(@) THEN Gone ELSE @])
  /\ IF thr[th].op = "remove"
       THEN Goto(th, [thr[th] EXCEPT !.pc = "z_read"])
       ELSE Return(th)
  /\ UNCHANGED archive
  /\ StoreFrame

\* the same with the rows read in the order of their ids
NormalizeReadById(th) ==
  /\ thr[th].pc = "z_read"
  /\ Goto(th, [thr[th] EXCEPT !.pc = "z_write",
        !.rows = [i \in 1..Cardinality(ActiveIds) |->
                    LET t == CHOOSE x \in ActiveIds :
                               Cardinality({u \in ActiveIds : u < x}) = i - 1
                    IN [id |-> t, queue_order |-> tasks[t].queue_order]]])
  /\ UNCHANGED <<tasks, archive>>
  /\ StoreFrame

\* SQLiteTaskRepository.normalize_queue_order, line 177: the SELECT
NormalizeRead(th) ==
  /\ thr[th].pc = "z_read"
  /\ Goto(th, [thr[th] EXCEPT !.pc = "z_write", !.rows = OrderedRows])
  /\ UNCHANGED <<tasks, archive>>
  /\ StoreFrame

\* the same without the UPDATEs
NormalizeWriteNothing(th) ==
  /\ thr[th].pc = "z_write"
  /\ Goto(th, [thr[th] EXCEPT !.pc = "z_done"])
  /\ UNCHANGED <<tasks, archive>>
  /\ StoreFrame

\* lines 179-183: UPDATE tasks SET queue_order=i WHERE id=r[0] for the rows
\* read, i from 1; commit
NormalizeWrite(th) ==
  /\ thr[th].pc = "z_write"
  /\ LET rows == thr[th].rows IN
       tasks' = [t \in Ids |->
                   IF Present(tasks[t]) /\ \E i \in 1..Len(rows) : rows[i].id = t
                     THEN [tasks[t] EXCEPT !.queue_order =
                             CHOOSE i \in 1..Len(rows) : rows[i].id = t]
                     ELSE tasks[t]]
  /\ Goto(th, [thr[th] EXCEPT !.pc = "z_done"])
  /\ UNCHANGED archive
  /\ StoreFrame

\* normalize_queue_order returns, and with it the service that called it
NormalizeReturn(th) ==
  /\ thr[th].pc = "z_done"
  /\ Return(th)
  /\ UNCHANGED <<tasks, archive>>
  /\ StoreFrame

\* QueueManagementService.move_up, lines 13-17
MoveUp(th) ==
  /\ thr[th].pc = "m_up"
  /\ IF thr[th].order1 <= 1
       THEN Return(th)
       ELSE Goto(th, [thr[th] EXCEPT !.pc = "s_get1", !.order2 = thr[th].order1 - 1])
  /\ UNCHANGED <<tasks, archive>>
  /\ StoreFrame

\* QueueManagementService.move_down, lines 26-33, and swap, lines 42-51:
\* max_order = len(list_by_queue_order()) and the range checks
MoveList(th) ==
  /\ thr[th].pc = "m_list"
  /\ LET max_order == Cardinality(ActiveIds)
         q1 == thr[th].order1
         q2 == thr[th].order2
     IN IF thr[th].op = "move_down"
          THEN IF q1 >= max_order
                 THEN Return(th)
                 ELSE Goto(th, [thr[th] EXCEPT !.pc = "s_get1", !.order2 = q1 + 1])
          ELSE IF q1 < 1 \/ q1 > max_order \/ q2 < 1 \/ q2 > max_order \/ q1 = q2
                 THEN Return(th)
                 ELSE Goto(th, [thr[th] EXCEPT !.pc = "s_get1"])
  /\ UNCHANGED <<tasks, archive>>
  /\ StoreFrame

\* SQLiteTaskRepository.swap_queue_orders, line 207
SwapGet1(th) ==
  /\ thr[th].pc = "s_get1"
  /\ Goto(th, [thr[th] EXCEPT !.pc = "s_get2", !.task1 = GetByQueueOrder(thr[th].order1)])
  /\ UNCHANGED <<tasks, archive>>
  /\ StoreFrame

\* lines 208-215: the second read, the check, the swap in memory
SwapGet2(th) ==
  /\ thr[th].pc = "s_get2"
  /\ LET task1 == thr[th].task1
         task2 == GetByQueueOrder(thr[th].order2)
     IN IF task1 = NoTask \/ task2 = NoTask
          THEN Return(th)
          ELSE Goto(th, [thr[th] EXCEPT
                 !.pc = "s_upd1",
                 !.task1 = [task1 EXCEPT !.row.queue_order = thr[th].order2],
                 !.task2 = [task2 EXCEPT !.row.queue_order = thr[th].order1]])
  /\ UNCHANGED <<tasks, archive>>
  /\ StoreFrame

\* line 218: self.update(task1), with its own commit
SwapUpdate1(th) ==
  /\ thr[th].pc = "s_upd1"
  /\ tasks' = Update(thr[th].task1.id, thr[th].task1.row)
  /\ Goto(th, [thr[th] EXCEPT !.pc = "s_upd2"])
  /\ UNCHANGED archive
  /\ StoreFrame

\* line 219: self.update(task2), with its own commit; the services go on
\* to normalize_queue_order
SwapUpdate2(th) ==
  /\ thr[th].pc = "s_upd2"
  /\ tasks' = Update(thr[th].task2.id, thr[th].task2.row)
  /\ IF thr[th].op = "swap_queue_orders"
       THEN Return(th)
       ELSE Goto(th, [thr[th] EXCEPT !.pc = "z_read"])
  /\ UNCHANGED archive
  /\ StoreFrame

\* SQLiteTaskRepository.list_by_queue_order called by a reader
ListByQueueOrder(th) ==
  /\ thr[th].pc = "l_read"
  /\ Goto(th, [thr[th] EXCEPT !.pc = "l_ret", !.rows = OrderedRows])
  /\ UNCHANGED <<tasks, archive>>
  /\ StoreFrame

\* the reader returns the rows it read
ListReturn(th) ==
  /\ thr[th].pc = "l_ret"
  /\ Return(th)
  /\ UNCHANGED <<tasks, archive>>
  /\ StoreFrame

\* ------------------------------------------------------------------ Next
Scheduler ==
  \/ LoopTest \/ Scan \/ CountActive \/ NextPending \/ StartDownloadTask \/ Sleep
  \/ Backoff

EngineExecute(th) ==
  \/ ExecuteTaskGet(th) \/ ExecuteTaskClearFlag(th) \/ ExecuteTaskMark(th)
  \/ ExecuteTaskReread(th) \/ ExecuteTaskComplete(th)
  \/ ExecuteTaskExceptGet(th) \/ ExecuteTaskFail(th)
  \/ ListenerGet(th) \/ ArchiveTaskGet(th) \/ ArchiveTask(th)

EnginePauseResume(th) ==
  \/ PauseTaskGet(th) \/ PauseTaskSetFlag(th) \/ PauseTaskMark(th)
  \/ ResumeTaskGet(th) \/ ResumeTaskClearFlag(th) \/ ResumeTaskMark(th)

WorkerHttp(th) ==
  \/ WorkerLoad(th) \/ ProbePersist(th) \/ ResumeDecision(th) \/ WriterOpen(th)
  \/ HttpGet(th) \/ NextChunk(th) \/ OnChunkWrite(th) \/ OnChunkPersist(th)
  \/ AfterDownload(th)

WorkerHls(th) ==
  \/ HlsFetchPlaylist(th) \/ HlsSegment(th) \/ HlsPersist(th)

\* Request threads drive one task through execute_task, pause_task and
\* resume_task; the server is of any kind and does not fail.
Init == InitWith({1}, Kinds, {FALSE})

Next ==
  \/ \E th \in Callers, op \in {"execute", "pause", "resume"}, t \in Added : Call(th, op, t)
  \/ \E th \in Threads : EngineExecute(th)
  \/ \E th \in Threads : EnginePauseResume(th)
  \/ \E th \in Threads : WorkerHttp(th)
  \/ \E th \in Threads : ResetPersist(th)
  \/ \E th \in Threads : WorkerHls(th)

Spec == Init /\ [][Next]_vars

\* The same on a server that ignores the Range header, or on one without
\* range support.
InitFull == InitWith({1}, {"full", "chunked"}, {FALSE})

NextFull ==
  \/ \E th \in Callers, op \in {"execute", "pause", "resume"}, t \in Added : Call(th, op, t)
  \/ \E th \in Threads : EngineExecute(th)
  \/ \E th \in Threads : EnginePauseResume(th)
  \/ \E th \in Threads : WorkerHttp(th)
  \/ \E th \in Threads : ResetPersist(th)

SpecFull == InitFull /\ [][NextFull]_vars

\* Request threads call execute_task on every added task at the same time;
\* HTTP servers with range support that do not fail.
InitTwo == InitWith(Added, {"range"}, {FALSE})

NextTwo ==
  \/ \E th \in Callers, t \in Added : Call(th, "execute", t)
  \/ \E th \in Threads : EngineExecute(th)
  \/ \E th \in Threads : WorkerHttp(th)

SpecTwo == InitTwo /\ [][NextTwo]_vars

\* The background engine runs its scheduling loop over every added task
\* while one request thread calls execute_task; the servers may fail.
InitSched == InitWith(Added, {"range"}, BOOLEAN)

FirstCaller == CHOOSE c \in Callers : \A o \in Callers : c <= o

NextSched ==
  \/ \E t \in Added : Call(FirstCaller, "execute", t)
  \/ \E th \in Threads : EngineExecute(th)
  \/ \E th \in Threads : WorkerHttp(th)
  \/ EngineStart \/ EngineStop
  \/ Scheduler

SpecSched == InitSched /\ [][NextSched]_vars

\* The same, with every thread scheduled fairly: a thread that can take a
\* step eventually takes one (requests and start/stop stay optional).
SpecSchedFair ==
  /\ SpecSched
  /\ WF_vars(Scheduler)
  /\ \A th \in Threads : WF_vars(EngineExecute(th) \/ WorkerHttp(th))

\* A request thread works on the queue through the store and the use-case
\* services, one call after the other.
Orders == 1..(NumTasks + NumFresh)

AddTask(th) == AddMax(th) \/ AddInsert(th) \/ AddReturn(th)

SwapQueueOrders(th) ==
  \/ SwapGet1(th) \/ SwapGet2(th) \/ SwapUpdate1(th) \/ SwapUpdate2(th)

ListRows(th) == ListByQueueOrder(th) \/ ListReturn(th)

QueueThread(th) ==
  \/ DeleteRow(th) \/ NormalizeRead(th) \/ NormalizeWrite(th) \/ NormalizeReturn(th)
  \/ MoveUp(th) \/ MoveList(th)
  \/ SwapQueueOrders(th)
  \/ ListRows(th)

QueueCalls(th) ==
  \/ StoreCall(th, "add", 0, 0, 0)
  \/ StoreCall(th, "normalize", 0, 0, 0)
  \/ StoreCall(th, "list_by_queue_order", 0, 0, 0)
  \/ \E t \in Ids, op \in {"delete", "remove"} : StoreCall(th, op, t, 0, 0)
  \/ \E q \in Orders, op \in {"move_up", "move_down"} : StoreCall(th, op, 0, q, 0)
  \/ \E q1, q2 \in Orders, op \in {"swap", "swap_queue_orders"} :
       StoreCall(th, op, 0, q1, q2)

InitQueue == InitWith(Added, {"range"}, {FALSE})

NextQueue ==
  \/ QueueCalls(FirstCaller)
  \/ \E th \in Threads : AddTask(th)
  \/ \E th \in Threads : QueueThread(th)

SpecQueue == InitQueue /\ [][NextQueue]_vars

\* The same on a database made before the queue existed: _init_db added the
\* column with ALTER TABLE ... DEFAULT 0, so every old row has queue_order 0.
InitLegacy ==
  /\ tasks = [t \in Ids |-> IF t \in Added THEN NewTask(0) ELSE NoRow]
  /\ archive = [t \in Ids |-> NoRow]
  /\ part = [t \in Ids |-> None]
  /\ final = [t \in Ids |-> None]
  /\ writer = [tmp |-> 0, closed |-> TRUE, orphan |-> FALSE]
  /\ pause_flags = [t \in Ids |-> FALSE]
  /\ active_downloads = {}
  /\ lock = "free"
  /\ running = FALSE
  /\ stop_requested = FALSE
  /\ bg_running = FALSE
  /\ sched = [pc |-> "off", pending |-> <<>>, active_count |-> 0, stopped |-> 0,
              other |-> NoLoop]   \* a second loop thread, see EngineRestart
  /\ thr = [th \in Threads |-> IdleThread]
  /\ kind = [t \in Ids |-> "range"]
  /\ flaky = FALSE
  /\ progress = NoProgress
  /\ reqActed = FALSE

SpecLegacy == InitLegacy /\ [][NextQueue]_vars

\* Request threads call the store at the same time, each on its own
\* connection.
NextStore ==
  \/ \E th \in Callers : StoreCall(th, "add", 0, 0, 0)
  \/ \E th \in Callers : StoreCall(th, "list_by_queue_order", 0, 0, 0)
  \/ \E th \in Callers, q1, q2 \in 1..NumTasks : StoreCall(th, "swap_queue_orders", 0, q1, q2)
  \/ \E th \in Threads : AddTask(th)
  \/ \E th \in Threads : SwapQueueOrders(th)
  \/ \E th \in Threads : ListRows(th)

SpecStore == InitQueue /\ [][NextStore]_vars

\* Request threads add tasks at the same time, each on its own connection,
\* while others list the queue.
NextAdd ==
  \/ \E th \in Callers : StoreCall(th, "add", 0, 0, 0)
  \/ \E th \in Callers : StoreCall(th, "list_by_queue_order", 0, 0, 0)
  \/ \E th \in Threads : AddTask(th)
  \/ \E th \in Threads : ListRows(th)

SpecAdd == InitQueue /\ [][NextAdd]_vars

\* A request thread runs tasks with execute_task, so that finished tasks reach
\* the archive through the ArchiveTaskListener, and adds and clones tasks;
\* the servers may fail.
NextClone ==
  \/ \E t \in Added : Call(FirstCaller, "execute", t)
  \/ StoreCall(FirstCaller, "add", 0, 0, 0)
  \/ \E t \in Ids, op \in {"clone", "archive"} : StoreCall(FirstCaller, op, t, 0, 0)
  \/ \E th \in Threads : EngineExecute(th)
  \/ \E th \in Threads : WorkerHttp(th)
  \/ \E th \in Threads : AddTask(th)
  \/ \E th \in Threads : CloneGet(th)

InitClone == InitWith({1}, {"range"}, BOOLEAN)

SpecClone == InitClone /\ [][NextClone]_vars

\* ---------------------------------------------------------------- claims
\* the persisted row of task t, in the active table or in the archive
PersistedIn(tk, ar, t) == IF Present(tk[t]) THEN tk[t] ELSE ar[t]

\* no other call on the task of thread th is in progress
Alone(th) == \A o \in Threads \ {th} : ~(InCall(o) /\ thr[o].tid = thr[th].tid)

\* C1: a resumable HTTP task's worker is streaming under execute_task and a
\* pause_task on it succeeds: when the worker returns, the persisted status
\* is PAUSED and the .part file is as long as the persisted downloaded.
C1_PausedAfterWorkerReturns ==
  [][\A th \in Threads :
       (/\ thr[th].op = "execute" /\ InWorker(th)
        /\ kind[thr[th].tid] = "range" /\ thr[th].task.resumable
        /\ thr[th].streaming /\ thr[th].pause = 3
        /\ Alone(th)
        /\ thr'[th].pc = "e_reread")
       => /\ Present(tasks'[thr[th].tid])
          /\ tasks'[thr[th].tid].status = PAUSED
          /\ part'[thr[th].tid] = tasks'[thr[th].tid].downloaded]_vars

\* C2: every change of a task's persisted status is PENDING->DOWNLOADING,
\* DOWNLOADING->PAUSED/COMPLETED/FAILED or PAUSED->DOWNLOADING.
AllowedTransitions ==
  {<<PENDING, DOWNLOADING>>, <<DOWNLOADING, PAUSED>>, <<DOWNLOADING, COMPLETED>>,
   <<DOWNLOADING, FAILED>>, <<PAUSED, DOWNLOADING>>}

C2_OnlyAllowedTransitions ==
  [][\A t \in Ids :
       (Present(tasks[t]) /\ Present(tasks'[t]) /\ tasks'[t].status # tasks[t].status)
       => <<tasks[t].status, tasks'[t].status>> \in AllowedTransitions]_vars

\* C3: a worker's persist (probe result, per-chunk / per-segment progress,
\* reset on a non-resumable pause) leaves the persisted status and
\* queue_order as they were.
PersistPcs == {"w_probe", "w_persist", "w_reset", "h_persist"}

C3_WorkerPersistKeepsStatus ==
  [][\A th \in Threads :
       (thr[th].pc \in PersistPcs /\ thr'[th].pc # thr[th].pc
        /\ Present(tasks[thr[th].tid]))
       => /\ tasks'[thr[th].tid].status = tasks[thr[th].tid].status
          /\ tasks'[thr[th].tid].queue_order = tasks[thr[th].tid].queue_order]_vars

\* C4: at most max_parallel tasks have status DOWNLOADING.
Downloading == {t \in Ids : Present(tasks[t]) /\ tasks[t].status = DOWNLOADING}

C4_DownloadingWithinLimit == Cardinality(Downloading) <= MaxParallel

\* C5: no two worker executions of the same task overlap.
C5_NoOverlappingWorkers ==
  \A a, b \in Threads :
    (a # b /\ InWorker(a) /\ InWorker(b)) => thr[a].tid # thr[b].tid

\* C6: two PENDING tasks, max_parallel = 1, servers that succeed: after the
\* engine has started, both tasks are eventually COMPLETED in the archive
\* and the active table is empty (unless the engine is stopped or a request
\* thread steps in).
EngineStarted == sched.pc # "off" /\ ~stop_requested /\ ~reqActed /\ ~flaky

AllArchived ==
  \A t \in Added : ~Present(tasks[t]) /\ Present(archive[t]) /\ archive[t].status = COMPLETED

C6_EventuallyAllArchived == EngineStarted ~> (AllArchived \/ stop_requested \/ reqActed)

\* C7: execute_task returns normally and no pause was requested during the
\* call: the task's status is COMPLETED or FAILED.
C7_ExecuteEndsCompletedOrFailed ==
  [][\A th \in Threads :
       (/\ thr[th].op = "execute" /\ thr[th].pc \in {"e_reread", "n_get", "n_move", "n_txn"}
        /\ ~thr[th].exc /\ thr[th].pause = 0
        /\ thr'[th].pc = "idle")
       => PersistedIn(tasks', archive', thr[th].tid).status \in {COMPLETED, FAILED}]_vars

\* C8: resume_task on a PAUSED resumable task whose .part is as long as its
\* downloaded: when the transfer ends without a new pause the file is
\* finalized and the status is COMPLETED.
C8_ResumeEndsCompleted ==
  [][\A th \in Threads :
       (/\ thr[th].op = "resume" /\ thr[th].pc = "w_after"
        /\ kind[thr[th].tid] = "range" /\ thr[th].task.resumable
        /\ thr[th].matched /\ thr[th].pause = 0 /\ Alone(th)
        /\ thr'[th].pc = "idle")
       => /\ final'[thr[th].tid] # None
          /\ PersistedIn(tasks', archive', thr[th].tid).status = COMPLETED]_vars

\* C9: once pause_task has set the flag, the running worker writes at most
\* one more chunk (fetches at most one more segment) before it stops.
C9_AtMostOneMoreChunk ==
  \A th \in Threads : thr[th].afterFlag # None => thr[th].afterFlag <= 1

\* C10: a worker whose chunk loop was interrupted by the pause check never
\* renames .part to the final name.
C10_InterruptedNeverFinalizes ==
  [][\A th \in Threads :
       (thr[th].pc = "w_after" /\ thr[th].interrupted /\ thr'[th].pc # "w_after")
       => final' = final]_vars

\* One request thread calls execute_task on one task, one call after the
\* other; the server is of any kind and its requests may fail.
InitSolo == InitWith({1}, Kinds, BOOLEAN)

NextSolo ==
  \/ \E t \in Added : Call(FirstCaller, "execute", t)
  \/ \E th \in Threads : EngineExecute(th)
  \/ \E th \in Threads : WorkerHttp(th)
  \/ \E th \in Threads : WorkerHls(th)

SpecSolo == InitSolo /\ [][NextSolo]_vars

\* C11: a worker raised during execute_task: when the call ends the task is
\* in the archive with status FAILED and no longer in the active table.
C11_RaiseEndsArchivedFailed ==
  [][\A th \in Threads :
       (/\ thr[th].op = "execute" /\ thr[th].exc
        /\ thr[th].pc \in {"x_get", "n_get", "n_move", "n_txn"}
        /\ thr'[th].pc = "idle")
       => /\ ~Present(tasks'[thr[th].tid])
          /\ Present(archive'[thr[th].tid])
          /\ archive'[thr[th].tid].status = FAILED]_vars

\* C12: an HLS task is marked COMPLETED only when every segment was fetched
\* and merged into the output file; a failed playlist or segment fetch never
\* ends in COMPLETED.
C12_HlsFailureNeverCompleted ==
  [][\A th \in Threads :
       (/\ thr[th].op = "execute" /\ thr[th].pc = "e_complete"
        /\ IsHlsStream(thr[th].tid)
        /\ thr'[th].pc = "n_get")
       => final[thr[th].tid] = FileSize]_vars

\* C13: an exception raised during a scan does not end the loop: the loop
\* backs off and scans again, unless a stop is requested meanwhile.
ScanFailed == sched.pc = "backoff"

C13_LoopSurvivesScanError == ScanFailed ~> (sched.pc = "scan" \/ stop_requested)

C13_Witness == ScanFailed /\ running /\ ~stop_requested

QueueOrders == {tasks[t].queue_order : t \in ActiveIds}
Dense ==
  /\ QueueOrders = 1..Cardinality(ActiveIds)
  /\ \A a, b \in ActiveIds : tasks[a].queue_order = tasks[b].queue_order => a = b

\* C15: whenever no operation is in progress (every add, and every archival
\* of a finished task by the ArchiveTaskListener, has completed) the
\* queue_order values of the active tasks are exactly 1..K.
C15_DenseAfterEveryOperation ==
  (\A th \in Threads : ~InCall(th)) => Dense

\* the rows a normalize_queue_order read were not numbered 1..K
ReadNotDense(th) ==
  \E i \in 1..Len(thr[th].rows) : thr[th].rows[i].queue_order # i

\* C16: when a normalize_queue_order that follows any sequence of add,
\* delete, swap_queue_orders, move_up, move_down and swap returns, the
\* queue_order values of the active tasks are pairwise distinct and are
\* exactly 1..K.
C16_NormalizeMakesDense ==
  \A th \in Threads : thr[th].pc = "z_done" => Dense

C16_Witness ==
  \E th \in Threads :
    /\ thr[th].pc = "z_done" /\ thr[th].op = "normalize"
    /\ ReadNotDense(th)
    /\ Cardinality(ActiveIds) >= 2

\* no two rows of a list_by_queue_order result have the same queue_order
DistinctOrders(rows) ==
  \A i, j \in 1..Len(rows) : rows[i].queue_order = rows[j].queue_order => i = j

\* the active table tk has no two rows with the same queue_order
NoDuplicateIn(tk) ==
  \A a, b \in Ids :
    (Present(tk[a]) /\ Present(tk[b]) /\ tk[a].queue_order = tk[b].queue_order) => a = b

\* C17: a list_by_queue_order of another thread, made while a
\* swap_queue_orders that began on a table without duplicates is between its
\* two updates, returns rows with pairwise distinct queue_order values.
C17_ReaderNeverSeesHalfSwap ==
  [][\A rd, sw \in Threads :
       (/\ thr[rd].pc = "l_read" /\ thr'[rd].pc = "l_ret"
        /\ thr[sw].op = "swap_queue_orders" /\ thr[sw].pc = "s_upd2"
        /\ Present(tasks[thr[sw].task1.id])
        /\ tasks[thr[sw].task1.id].queue_order = thr[sw].order2
        /\ NoDuplicateIn([tasks EXCEPT ![thr[sw].task1.id].queue_order = thr[sw].order1]))
       => DistinctOrders(thr'[rd].rows)]_vars

\* C18: the INSERT of an add gives the new task a queue_order that no other
\* active task has and that is larger than the queue_order of every task
\* that was in the table before, whatever other add calls run at the same
\* time.
C18_ConcurrentAddsDistinct ==
  [][\A th \in Threads :
       (/\ thr[th].op = "add" /\ thr[th].pc = "a_ins" /\ thr'[th].pc = "a_done")
       => \A t \in ActiveIds :
            tasks'[thr[th].new_id].queue_order > tasks[t].queue_order]_vars

\* no id is in the active table and in the archive
NoIdInBoth(tk, ar) == \A t \in Ids : ~(Present(tk[t]) /\ Present(ar[t]))

\* the archive_task call of thread th ends with this step
ArchiveTaskEnds(th) ==
  thr[th].pc \in {"n_get", "n_move", "n_txn"} /\ thr'[th].pc = "idle"

\* the step that ends the call is the commit of its transaction
ArchiveTaskCommits(th) ==
  thr[th].pc = "n_txn" /\ ~Present(archive[thr[th].tid])

\* C19: every step leaves each id in at most one of the two tables; an
\* archive_task that succeeds leaves its id in the archive, with the row it
\* read, and not in the active table; an archive_task that fails (id absent,
\* status refused, id already in the archive) changes neither table.
C19_ArchiveIsOneTransaction ==
  [][/\ NoIdInBoth(tasks', archive')
     /\ \A th \in Threads :
          ArchiveTaskEnds(th) =>
            IF ArchiveTaskCommits(th)
              THEN /\ archive'[thr[th].tid] = thr[th].task
                   /\ ~Present(tasks'[thr[th].tid])
              ELSE UNCHANGED <<tasks, archive>>]_vars

\* one archive_task has moved the row and another one, which read the row
\* before, is about to insert the same id
C19_Witness ==
  \E th \in Threads :
    /\ thr[th].pc = "n_txn"
    /\ Present(archive[thr[th].tid])
    /\ ~Present(tasks[thr[th].tid])

\* C20: the INSERT of a clone_from_archive of an archived task adds a task
\* whose id was in neither table, with status PENDING, downloaded 0,
\* capability_checked false and a queue_order after every active task, and
\* leaves the archive as it was; and no step puts an archived id into the
\* active table.
C20_CloneIsNewPendingTask ==
  [][/\ \A t \in Ids : Present(archive[t]) => ~Present(tasks'[t])
     /\ \A th \in Threads :
          (thr[th].op = "clone" /\ thr[th].pc = "a_ins" /\ thr'[th].pc # "a_ins")
          => LET n == thr[th].new_id IN
               /\ n # thr[th].tid
               /\ ~Present(tasks[n]) /\ ~Present(archive[n])
               /\ Present(tasks'[n])
               /\ tasks'[n].status = PENDING
               /\ tasks'[n].downloaded = 0
               /\ tasks'[n].capability_checked = FALSE
               /\ \A t \in ActiveIds : tasks'[n].queue_order > tasks[t].queue_order
               /\ \A t \in Ids \ {n} : tasks'[t] = tasks[t]
               /\ archive' = archive]_vars

\* clone_from_archive has added its task: the archived task was run by
\* execute_task and archived by the listener, and other tasks are active
C20_Witness ==
  \E th \in Threads :
    /\ thr[th].op = "clone" /\ thr[th].pc = "a_done"
    /\ Present(archive[thr[th].tid])
    /\ archive[thr[th].tid].downloaded > 0
    /\ Present(tasks[thr[th].new_id])
    /\ Cardinality(ActiveIds) >= 2

\* the positions at which a thread's next step is a repo.update of its task
UpdatePcs == {"e_mark", "e_complete", "x_fail", "p_mark", "r_mark",
              "w_probe", "w_persist", "w_reset", "h_persist"}

\* C21: a repo.update for an id that is not in the active table changes no
\* row and raises: the caller does not go on as after a successful update
\* (it leaves the call, or enters execute_task's exception handler).
C21_UpdateOfAbsentRowRaises ==
  [][\A th \in Threads :
       (/\ thr[th].pc \in UpdatePcs /\ ~thr[th].exc
        /\ thr'[th] # thr[th]
        /\ ~Present(tasks[thr[th].tid]))
       => /\ tasks' = tasks
          /\ (thr'[th].pc = "idle" \/ thr'[th].exc)]_vars

\* the statuses from which an operation of the engine may start
AllowedSource(op) ==
  CASE op = "execute" -> {PENDING, PAUSED}
    [] op = "pause"   -> {DOWNLOADING}
    [] op = "resume"  -> {PAUSED}
    [] OTHER          -> {}

\* thread th is about to read the row of a task that its operation refuses
Refused(th) ==
  /\ thr[th].pc \in {"e_get", "p_get", "r_get"}
  /\ tasks[thr[th].tid].status \notin AllowedSource(thr[th].op)

\* C22: execute_task, pause_task and resume_task on a task whose status is
\* outside the operation's source set (or that is absent) end at their
\* validation: the call is over, no row and no pause flag has changed.
C22_RefusedCallChangesNothing ==
  [][\A th \in Threads :
       (Refused(th) /\ thr'[th].pc # thr[th].pc)
       => /\ thr'[th].pc = "idle"
          /\ tasks' = tasks
          /\ pause_flags' = pause_flags]_vars

\* an execute_task is about to read a row that another call made
\* DOWNLOADING, while the pause flag of the task is set
C22_Witness ==
  \E th \in Threads :
    /\ Refused(th) /\ thr[th].op = "execute"
    /\ tasks[thr[th].tid].status = DOWNLOADING
    /\ pause_flags[thr[th].tid]

\* C23: normalize_queue_order keeps the relative order of the tasks: a task
\* that was before another one (smaller queue_order) when the rows were
\* renumbered is before it afterwards.
C23_NormalizeKeepsRelativeOrder ==
  [][\A th \in Threads :
       (thr[th].pc = "z_write" /\ thr'[th].pc = "z_done")
       => \A x, y \in ActiveIds :
            tasks[x].queue_order < tasks[y].queue_order
            => tasks'[x].queue_order < tasks'[y].queue_order]_vars

\* three tasks, the first and the third swapped, the middle one removed: the
\* two tasks left were read as 1 and 3 with the later-added task first, and
\* are now 1 and 2 in that order
C23_Witness ==
  \E th \in Threads :
    /\ thr[th].pc = "z_done" /\ thr[th].op = "remove"
    /\ Len(thr[th].rows) = 2
    /\ thr[th].rows[1].queue_order = 1 /\ thr[th].rows[2].queue_order = 3
    /\ thr[th].rows[1].id > thr[th].rows[2].id
    /\ tasks[thr[th].rows[1].id].queue_order = 1
    /\ tasks[thr[th].rows[2].id].queue_order = 2

\* C24: normalize_queue_order numbers the tasks whose queue_order is 0 after
\* all the tasks with a positive queue_order, and among themselves in the
\* order of their ids.
C24_NormalizePutsUnorderedLast ==
  [][\A th \in Threads :
       (thr[th].pc = "z_write" /\ thr'[th].pc = "z_done")
       => \A x, y \in ActiveIds :
            /\ (tasks[x].queue_order = 0 /\ tasks[y].queue_order > 0)
                 => tasks'[y].queue_order < tasks'[x].queue_order
            /\ (tasks[x].queue_order = 0 /\ tasks[y].queue_order = 0 /\ x < y)
                 => tasks'[x].queue_order < tasks'[y].queue_order]_vars

\* C25: a non-resumable task that has received bytes observes a pause that
\* pause_task completed: when its worker returns, the .part file is gone,
\* the persisted downloaded is 0 and the persisted status is PAUSED.
C25_NonResumablePauseResets ==
  [][\A th \in Threads :
       (/\ thr[th].op = "execute" /\ thr[th].pc = "w_reset"
        /\ thr[th].pause = 3
        /\ Alone(th)
        /\ thr'[th].pc = "e_reread")
       => /\ part'[thr[th].tid] = None
          /\ Present(tasks'[thr[th].tid])
          /\ tasks'[thr[th].tid].downloaded = 0
          /\ tasks'[thr[th].tid].status = PAUSED]_vars

\* the worker of thread th is about to open the .part file of a resumable
\* task on a server with range support, its copy of the row is the persisted
\* one, downloaded > 0, and the .part file has another size
PartDiffers(th) ==
  LET t == thr[th].tid IN
    /\ thr[th].pc = "w_open"
    /\ thr[th].range_supported /\ thr[th].task.resumable
    /\ thr[th].task.downloaded > 0
    /\ tasks[t] = thr[th].task
    /\ part[t] # None /\ part[t] # thr[th].task.downloaded

\* C26: a resumable task with downloaded > 0 is started and its .part file
\* has another size than the persisted downloaded: the worker keeps the bytes
\* of the .part file and goes on from its size (start_byte = size(.part)).
C26_WorkerTrustsPartFile ==
  [][\A th \in Threads :
       (PartDiffers(th) /\ thr'[th].pc = "w_get")
       => /\ part'[thr[th].tid] = part[thr[th].tid]
          /\ thr'[th].start_byte = part[thr[th].tid]]_vars

\* the worker of thread th is about to send its request for a task that is
\* already complete: downloaded = total, the .part file holds every byte,
\* and no other call on the task is in progress
AlreadyComplete(th) ==
  LET t == thr[th].tid IN
    /\ thr[th].pc = "w_get"
    /\ thr[th].task.downloaded = FileSize /\ thr[th].task.total = FileSize
    /\ tasks[t] = thr[th].task
    /\ part[t] = FileSize
    /\ Alone(th)

\* C27: starting or resuming a download that is already complete appends no
\* byte and does not fail: the request does not raise and the .part file
\* keeps its bytes until it is renamed.
C27_CompleteDownloadOnlyFinalizes ==
  [][\A th \in Threads :
       (AlreadyComplete(th) /\ thr'[th].pc # "w_get")
       => /\ thr'[th].pc \notin {"x_get", "idle"}
          /\ part' = part]_vars

\* a .part file holding exactly the persisted downloaded bytes of task t exists
PartMatches(t) == part[t] # None /\ part[t] = tasks[t].downloaded

\* C28: for every PAUSED task with no call in progress on it (its worker,
\* HTTP or HLS, has returned), a .part file holding exactly downloaded bytes
\* exists if and only if the task is resumable and downloaded > 0.
C28_PausedPartIffResumable ==
  \A t \in Ids :
    (/\ Present(tasks[t]) /\ tasks[t].status = PAUSED
     /\ \A th \in Threads : ~(InCall(th) /\ thr[th].tid = t))
    => (PartMatches(t) <=> (tasks[t].resumable /\ tasks[t].downloaded > 0))

\* C29: every persisted task whose total is known has 0 <= downloaded <=
\* total, in the active table and in the archive, during and after a resumed
\* transfer as well.
C29_DownloadedWithinTotal ==
  \A t \in Ids :
    /\ (Present(tasks[t]) /\ tasks[t].total # None)
         => (0 <= tasks[t].downloaded /\ tasks[t].downloaded <= tasks[t].total)
    /\ (Present(archive[t]) /\ archive[t].total # None)
         => (0 <= archive[t].downloaded /\ archive[t].downloaded <= archive[t].total)

\* the positions at which a worker's next step uses the FileWriter
WriterPcs == {"w_open", "w_get", "w_write", "w_after", "w_reset"}

\* C30: with several workers running at the same time, a chunk of a task is
\* appended to that task's own .part file, and no write, open, close or
\* finalize done for one task changes the .part file of another task.
C30_WorkersKeepToOwnPartFile ==
  [][\A th \in Threads :
       (thr[th].pc \in WriterPcs /\ thr'[th].pc # thr[th].pc)
       => /\ \A t \in Ids \ {thr[th].tid} : part'[t] = part[t]
          /\ (thr[th].pc = "w_write" /\ thr'[th].pc = "w_persist")
               => part'[thr[th].tid] = part[thr[th].tid] + 1]_vars

\* C31: capability_checked is true only after a probe that succeeded. A
\* successful probe of a server with range support and a Content-Length
\* says resumable, so on such a server a persisted row with
\* capability_checked has resumable (a failed probe left both as they were).
C31_CheckedOnlyAfterSuccessfulProbe ==
  \A t \in Ids :
    (Present(tasks[t]) /\ kind[t] = "range" /\ tasks[t].capability_checked)
    => tasks[t].resumable

\* ------------------------------------------------------------- progress
MaxCount == 2

\* the integers a caller passes as downloaded or total
Counts == -1..MaxCount
Totals == Counts \cup {NoTotal}

CONNECTING == "connecting"
FINALIZING == "finalizing"
ProgressPhase == {CONNECTING, DOWNLOADING, FINALIZING, PAUSED}

QueueIds == 1..NumTasks

Max2(a, b) == IF a >= b THEN a ELSE b
Min2(a, b) == IF a <= b THEN a ELSE b

\* the dataclass fields as given, without __post_init__
SnapshotAsGiven(q, d, t, ph) ==
  [queue_id |-> q, downloaded |-> d, total |-> t, phase |-> ph]

\* ProgressSnapshot(...) with __post_init__: downloaded = max(0, downloaded);
\* total known: downloaded = min(downloaded, total), then total = max(0, total)
Snapshot(q, d, t, ph) ==
  LET d1 == Max2(0, d)
      d2 == IF t # NoTotal THEN Min2(d1, t) ELSE d1
      t2 == IF t # NoTotal THEN Max2(0, t) ELSE t
  IN [queue_id |-> q, downloaded |-> d2, total |-> t2, phase |-> ph]

\* ProgressSnapshot.percentage: min(int(downloaded / total * 100), 100)
\* (int truncates towards zero)
Percentage(snap) ==
  IF snap.total = NoTotal \/ snap.total <= 0 THEN 0
  ELSE LET pct == IF snap.downloaded >= 0
                    THEN (snap.downloaded * 100) \div snap.total
                    ELSE 0 - (((0 - snap.downloaded) * 100) \div snap.total)
       IN Min2(pct, 100)

\* ProgressState.__init__
NewState(t) == [downloaded |-> 0, total |-> t, phase |-> CONNECTING]

\* the phase is DOWNLOADING after every update with downloaded > 0
PhaseAfterAnyUpdate(ph, d) == IF d > 0 THEN DOWNLOADING ELSE ph

\* ProgressState.update lines 34-36
PhaseAfterUpdate(ph, d) == IF d > 0 /\ ph = CONNECTING THEN DOWNLOADING ELSE ph

\* ProgressState.update lines 24-36 (speed and ETA are not modelled)
UpdatedState(st, d, t) ==
  LET d1 == Max2(0, d)
      t1 == IF t # NoTotal THEN Max2(0, t) ELSE st.total
      d2 == IF t1 # NoTotal /\ d1 > t1 THEN t1 ELSE d1
  IN [downloaded |-> d2, total |-> t1, phase |-> PhaseAfterUpdate(st.phase, d)]

\* ProgressState.get_snapshot
StateSnapshot(q) ==
  LET st == progress.states[q] IN Snapshot(q, st.downloaded, st.total, st.phase)

Registered == {q \in QueueIds : progress.states[q] # NoState}

RECURSIVE SumOver(_, _)
SumOver(S, f) ==
  IF S = {} THEN 0
  ELSE LET q == CHOOSE x \in S : TRUE IN f[q] + SumOver(S \ {q}, f)

\* ProgressAggregator.get_total_snapshot
TotalSnapshot ==
  LET snaps  == [q \in Registered |-> StateSnapshot(q)]
      active == {q \in Registered : snaps[q].phase # FINALIZING}
  IN IF Registered = {}
       THEN Snapshot(0, 0, NoTotal, DOWNLOADING)
     ELSE IF active = {}
       THEN Snapshot(0, 0, 0, FINALIZING)
     ELSE Snapshot(0,
            SumOver(active, [q \in active |-> snaps[q].downloaded]),
            IF \A q \in active : snaps[q].total # NoTotal
              THEN SumOver(active, [q \in active |-> snaps[q].total])
              ELSE NoTotal,
            IF \E q \in active : snaps[q].phase = CONNECTING THEN CONNECTING
            ELSE DOWNLOADING)

ProgressFrame ==
  UNCHANGED <<tasks, archive, part, final, writer, pause_flags,
              active_downloads, lock, running, stop_requested, bg_running,
              sched, thr, kind, flaky, reqActed>>

\* a ProgressSnapshot is constructed from the given values
NewSnapshot(d, t, ph) ==
  /\ progress' = [progress EXCEPT
        !.snapshot = [origin |-> "given", value |-> Snapshot(1, d, t, ph)],
        !.last = [op |-> "snapshot", downloaded |-> d, total |-> t]]
  /\ ProgressFrame

\* MultiProgressManager.add_task: ProgressState(queue_id, total_size),
\* aggregator.add_task
AddProgressTask(q, t) ==
  /\ progress' = [progress EXCEPT
        !.states[q] = NewState(t),
        !.removed[q] = NoTotal,
        !.snapshot = NoSnapshot,
        !.last = [op |-> "add_task", queue_id |-> q, total |-> t]]
  /\ ProgressFrame

\* ProgressState.update(downloaded, total) on the state add_task returned
StateUpdate(q, d, t) ==
  /\ progress.states[q] # NoState
  /\ progress' = [progress EXCEPT
        !.states[q] = UpdatedState(@, d, t),
        !.snapshot = NoSnapshot,
        !.last = [op |-> "update", queue_id |-> q, downloaded |-> d, total |-> t]]
  /\ ProgressFrame

\* ProgressState.set_phase(phase)
SetPhase(q, ph) ==
  /\ progress.states[q] # NoState
  /\ progress' = [progress EXCEPT
        !.states[q] = [@ EXCEPT !.phase = ph],
        !.snapshot = NoSnapshot,
        !.last = [op |-> "set_phase", queue_id |-> q, phase |-> ph]]
  /\ ProgressFrame

\* ProgressState.get_snapshot()
GetSnapshot(q) ==
  /\ progress.states[q] # NoState
  /\ progress' = [progress EXCEPT
        !.snapshot = [origin |-> "state", value |-> StateSnapshot(q)],
        !.last = [op |-> "get_snapshot", queue_id |-> q]]
  /\ ProgressFrame

\* ProgressAggregator.get_total_snapshot()
GetTotalSnapshot ==
  /\ progress' = [progress EXCEPT
        !.snapshot = [origin |-> "total", value |-> TotalSnapshot],
        !.last = [op |-> "get_total_snapshot"]]
  /\ ProgressFrame

\* One ProgressState is created, updated and read, and snapshots are built
\* from arbitrary values.
InitProgress == InitWith(Added, {"range"}, {FALSE})

NextState ==
  \/ \E d \in Counts, t \in Totals, ph \in ProgressPhase : NewSnapshot(d, t, ph)
  \/ \E t \in Totals : progress.states[1] = NoState /\ AddProgressTask(1, t)
  \/ \E d \in Counts, t \in Totals : StateUpdate(1, d, t)
  \/ \E ph \in ProgressPhase : SetPhase(1, ph)
  \/ GetSnapshot(1)

SpecState == InitProgress /\ [][NextState]_vars

\* C32: the percentage of every ProgressSnapshot, whatever integers it is
\* built from, is in 0..100; it is 0 when the total given is unknown or not
\* positive and 100 when the downloaded given is at least a positive total.
C32_PercentageWithinBounds ==
  progress.snapshot # NoSnapshot
  => LET pct == Percentage(progress.snapshot.value) IN
       /\ pct \in 0..100
       /\ progress.last.op = "snapshot"
            => /\ (progress.last.total = NoTotal \/ progress.last.total <= 0) => pct = 0
               /\ (progress.last.total > 0 /\ progress.last.downloaded >= progress.last.total)
                    => pct = 100

\* a snapshot was built from a downloaded above its positive total
C32_Witness ==
  /\ progress.last.op = "snapshot"
  /\ progress.last.downloaded > progress.last.total
  /\ progress.last.total > 0
  /\ Percentage(progress.snapshot.value) = 100

\* C33: after any sequence of update calls with arbitrary integers, from any
\* initial total, every snapshot of a ProgressState has downloaded >= 0,
\* total >= 0 when it is known, and downloaded <= total when it is known.
C33_StateSnapshotClamped ==
  (progress.snapshot # NoSnapshot /\ progress.snapshot.origin = "state")
  => LET snap == progress.snapshot.value IN
       /\ snap.downloaded >= 0
       /\ snap.total # NoTotal => (snap.total >= 0 /\ snap.downloaded <= snap.total)

\* C34: a ProgressState starts in CONNECTING; update moves it to DOWNLOADING
\* when downloaded > 0 and the phase is CONNECTING and changes the phase in
\* no other way; set_phase sets the phase to the value given.
C34_PhaseTransitions ==
  [][\A q \in QueueIds :
       LET old == progress.states[q]
           new == progress'.states[q]
           call == progress'.last
       IN (progress' # progress /\ new # NoState)
          => /\ (call.op = "add_task" /\ call.queue_id = q)
                  => new.phase = CONNECTING
             /\ (call.op = "update" /\ call.queue_id = q)
                  => new.phase = IF call.downloaded > 0 /\ old.phase = CONNECTING
                                   THEN DOWNLOADING ELSE old.phase
             /\ (call.op = "set_phase" /\ call.queue_id = q)
                  => new.phase = call.phase
             /\ call.op \notin {"add_task", "update", "set_phase"}
                  => new.phase = old.phase]_vars

\* an update with downloaded > 0 reached a state that set_phase had PAUSED
\* and left it PAUSED
C34_Witness ==
  /\ progress.last.op = "update" /\ progress.last.downloaded > 0
  /\ progress.states[progress.last.queue_id].phase = PAUSED
  /\ progress.states[progress.last.queue_id].downloaded > 0

\* Several ProgressStates are registered with the aggregator, updated and
\* moved through their phases; the total snapshot is read.
NextAggregate ==
  \/ \E q \in QueueIds, t \in {NoTotal} \cup 1..MaxCount :
       progress.states[q] = NoState /\ AddProgressTask(q, t)
  \/ \E q \in QueueIds, d \in 0..MaxCount, t \in {NoTotal} \cup 1..MaxCount :
       StateUpdate(q, d, t)
  \/ \E q \in QueueIds, ph \in ProgressPhase : SetPhase(q, ph)
  \/ GetTotalSnapshot

SpecAggregate == InitProgress /\ [][NextAggregate]_vars

\* C35: with at least one state registered, get_total_snapshot returns the
\* sum of downloaded over all registered states, the sum of their totals if
\* every registered state has a known total (unknown otherwise), and the
\* phase CONNECTING if any state is CONNECTING, FINALIZING if all are
\* FINALIZING, DOWNLOADING otherwise.
C35_TotalSnapshotSumsAllStates ==
  (progress.snapshot # NoSnapshot /\ progress.snapshot.origin = "total"
   /\ Registered # {})
  => LET snap  == progress.snapshot.value
         snaps == [q \in Registered |-> StateSnapshot(q)]
     IN /\ snap.downloaded = SumOver(Registered, [q \in Registered |-> snaps[q].downloaded])
        /\ snap.total = IF \A q \in Registered : snaps[q].total # NoTotal
                          THEN SumOver(Registered, [q \in Registered |-> snaps[q].total])
                          ELSE NoTotal
        /\ snap.phase = IF \E q \in Registered : snaps[q].phase = CONNECTING
                          THEN CONNECTING
                        ELSE IF \A q \in Registered : snaps[q].phase = FINALIZING
                          THEN FINALIZING
                        ELSE DOWNLOADING

\* a worker thread calls MultiProgressManager.remove_task(queue_id)
RemoveTaskCall(th, q) ==
  /\ th \in Callers
  /\ thr[th].pc = "idle"
  /\ \A o \in Callers : o < th => InCall(o)   \* idle threads are interchangeable
  /\ thr' = [thr EXCEPT ![th] =
       [IdleThread EXCEPT !.op = "remove_task", !.tid = q, !.pc = "g_snap"]]
  /\ UNCHANGED <<tasks, archive, part, final, writer, pause_flags,
                 active_downloads, lock, running, stop_requested, bg_running,
                 sched, kind, flaky, progress, reqActed>>

\* remove_task line 38: aggregator.get_task_snapshot (under the aggregator's
\* lock), None when the id is not registered
RemoveGetSnapshot(th) ==
  /\ thr[th].pc = "g_snap"
  /\ Goto(th, [thr[th] EXCEPT !.pc = "g_fold",
        !.rows = IF thr[th].tid \in Registered
                   THEN <<StateSnapshot(thr[th].tid)>> ELSE <<>>])
  /\ UNCHANGED <<tasks, archive, progress>>
  /\ StoreFrame

\* remove_task lines 39-41: the two counters (no lock is held)
RemoveFold(th) ==
  /\ thr[th].pc = "g_fold"
  /\ progress' =
       IF thr[th].rows = <<>> THEN progress
       ELSE [progress EXCEPT
               !.total_downloaded_at_completion = @ + thr[th].rows[1].downloaded,
               !.completed_tasks_count = @ + 1]
  /\ Goto(th, [thr[th] EXCEPT !.pc = "g_remove"])
  /\ UNCHANGED <<tasks, archive, part, final, writer, pause_flags, lock,
                 running, stop_requested, bg_running, sched, kind, flaky, reqActed>>

\* remove_task line 43: aggregator.remove_task (under the aggregator's lock)
RemoveFromAggregator(th) ==
  /\ thr[th].pc = "g_remove"
  /\ LET q == thr[th].tid IN
       progress' =
         IF q \in Registered
           THEN [progress EXCEPT !.removed[q] = StateSnapshot(q).downloaded,
                                 !.states[q] = NoState]
           ELSE progress
  /\ Return(th)
  /\ UNCHANGED <<tasks, archive, part, final, writer, pause_flags, lock,
                 running, stop_requested, bg_running, sched, kind, flaky, reqActed>>

RemoveTask(th) ==
  \/ RemoveGetSnapshot(th) \/ RemoveFold(th) \/ RemoveFromAggregator(th)

\* Worker threads update the states of their tasks and remove them from the
\* MultiProgressManager at the same time; every task is registered once and
\* remove_task is called for registered tasks.
NextRemove ==
  \/ \E q \in QueueIds :
       /\ progress.states[q] = NoState /\ progress.removed[q] = NoTotal
       /\ AddProgressTask(q, NoTotal)
  \/ \E q \in QueueIds, d \in 1..MaxCount : StateUpdate(q, d, NoTotal)
  \/ \E th \in Callers, q \in QueueIds : q \in Registered /\ RemoveTaskCall(th, q)
  \/ \E th \in Threads : RemoveTask(th)

SpecRemove == InitProgress /\ [][NextRemove]_vars

\* the queue ids whose state was removed from the aggregator
RemovedIds == {q \in QueueIds : progress.removed[q] # NoTotal}

\* C36: when no remove_task call is in progress, the session total is the
\* sum of the final downloaded counts of the removed tasks and the
\* completed-task count is the number of distinct removed tasks.
C36_SessionTotalIsSumOfRemoved ==
  (\A th \in Threads : ~InCall(th))
  => /\ progress.total_downloaded_at_completion = SumOver(RemovedIds, progress.removed)
     /\ progress.completed_tasks_count = Cardinality(RemovedIds)

\* ------------------------------------------------ the loop and its lock
\* C37: the scheduling loop never blocks forever on the lock of the active
\* ids: a scan that decides to start a PENDING task adds the id, spawns
\* the worker and goes on to sleep and scan again.  In the model the loop
\* thread at "blocked" waits for a lock that it holds itself.
C37_LoopNeverBlocksOnLock == ~(sched.pc = "blocked" /\ lock = "sched")

\* ------------------------------------------- COMPLETED and the output file
\* C38: execute_task writes COMPLETED (and then fires the task-finished
\* event) only if the worker of that execution finalized the output file,
\* however pause_task's two steps interleave with the worker's return and
\* the reread of execute_task.
C38_CompletedOnlyAfterFinalize ==
  [][\A th \in Threads :
       (/\ thr[th].op = "execute" /\ thr[th].pc = "e_complete"
        /\ thr'[th].pc = "n_get")
       => thr[th].finalized]_vars

\* ------------------------------------------- start, stop and start again
\* BackgroundEngineService.start() while the loop thread of an earlier
\* start() has not ended: the service spawns a new thread, which runs
\* DownloadEngine.start(); the earlier thread is kept in sched.other.
EngineRestart ==
  /\ ~bg_running
  /\ sched.pc # "off"
  /\ sched.other.pc = "off"
  /\ bg_running' = TRUE
  /\ IF running
       THEN UNCHANGED <<running, stop_requested, sched>>
       ELSE /\ running' = TRUE
            /\ stop_requested' = FALSE
            /\ sched' = [pc |-> "loop", pending |-> <<>>, active_count |-> 0,
                         stopped |-> 0,
                         other |-> [pc |-> sched.pc, pending |-> sched.pending,
                                    active_count |-> sched.active_count,
                                    stopped |-> sched.stopped]]
  /\ UNCHANGED <<tasks, archive, part, final, writer, pause_flags,
                 active_downloads, lock, thr, kind, flaky, progress, reqActed>>

\* the other loop thread is the one that takes the next step
SwitchLoop ==
  /\ sched.other.pc # "off"
  /\ sched' = [pc |-> sched.other.pc, pending |-> sched.other.pending,
               active_count |-> sched.other.active_count,
               stopped |-> sched.other.stopped,
               other |-> [pc |-> sched.pc, pending |-> sched.pending,
                          active_count |-> sched.active_count,
                          stopped |-> sched.stopped]]
  /\ UNCHANGED <<tasks, archive, part, final, writer, pause_flags,
                 active_downloads, lock, running, stop_requested, bg_running,
                 thr, kind, flaky, progress, reqActed>>

\* The service is started and stopped any number of times, also while the
\* loop thread of the start before is still alive; a request thread may
\* execute tasks meanwhile.
NextLoops ==
  \/ \E t \in Added : Call(FirstCaller, "execute", t)
  \/ \E th \in Threads : EngineExecute(th)
  \/ \E th \in Threads : WorkerHttp(th)
  \/ EngineStart \/ EngineStop \/ EngineRestart
  \/ SwitchLoop
  \/ Scheduler

SpecLoops == InitSched /\ [][NextLoops]_vars

\* C39: for any sequence of start and stop calls of the service, also a
\* stop followed at once by a start, at most one thread executes the
\* scheduling loop and a loop that was asked to stop starts no further
\* worker: two loop threads are never alive together when one of them has
\* passed its loop test after a stop was requested for it.
C39_AtMostOneLoopThread ==
  ~(/\ sched.pc # "off" /\ sched.other.pc # "off"
    /\ (sched.stopped = 2 \/ sched.other.stopped = 2))

\* ------------------------------------------- reordering a running queue
\* One request thread executes a task; while it does, another swaps the
\* queue positions of two tasks.
NextReorder ==
  \/ \E t \in Added : Call(FirstCaller, "execute", t)
  \/ \E th \in Callers \ {FirstCaller}, q1, q2 \in Added :
       q1 < q2 /\ StoreCall(th, "swap_queue_orders", 0, q1, q2)
  \/ \E th \in Threads : EngineExecute(th)
  \/ \E th \in Threads : WorkerHttp(th)
  \/ \E th \in Threads : SwapQueueOrders(th)

SpecReorder == InitQueue /\ [][NextReorder]_vars

\* C40: reordering the queue changes queue_order only: a write of
\* swap_queue_orders leaves status, downloaded, total, resumable and
\* capability_checked of every task as the engine and the workers last
\* wrote them, however it interleaves with a running worker.
C40_ReorderChangesOnlyQueueOrder ==
  [][\A th \in Threads :
       (thr[th].pc \in {"s_upd1", "s_upd2"} /\ thr'[th] # thr[th])
       => \A t \in Ids :
            [tasks'[t] EXCEPT !.queue_order = tasks[t].queue_order] = tasks[t]]_vars
====
